---- MODULE Spec2Model ----
(***************************************************************************)
(* Model of the upload orchestration engine of storageto/cli               *)
(* (internal/upload/upload.go, kept under src/unnamed/part_006, lines      *)
(* 105-821): the batch orchestrator uploadFilesBatch and the multipart     *)
(* transfer uploadMultipart, with their worker goroutines, the retry       *)
(* driver uploadWithRetry, and the entry points UploadFiles / UploadFile,  *)
(* with the caller's context and the remote service as the environment.    *)
(*                                                                         *)
(* Strings are kept only as far as the code looks at them: "" against a    *)
(* non-empty value.  A remote call made with a cancelled context fails     *)
(* (net/http refuses a request whose context is done); otherwise its       *)
(* outcome is the environment's choice.                                    *)
(***************************************************************************)
EXTENDS Integers, Sequences, FiniteSets, TLC

\* ------------------------------------------------------------- bounds
\* Largest number of parts whose progressReaders are followed together.
MaxReaders == 2
\* Number of GetVisitorToken calls followed.
MaxCalls == 3
\* Longest file (in bytes) sent by uploadSingle, and longest read.
MaxContent == 2
MaxChunk == 2
\* Largest start, and largest end - start, given to generatePartNumbers.
MaxStart == 10
MaxSpan == 5
\* Largest file size and negotiated part size (in bytes) of a part plan.
MaxSize == 9
MaxPartSize == 4
\* Largest number of input paths of a batch run.
MaxFiles == 4
\* Largest totalParts of a multipart negotiation.
MaxParts == 5
\* Page size of init-batch / confirm-batch (250 in the source), scaled so
\* that a run of MaxFiles files needs more than one page.
batchSize == 2
\* File-level admission gate (6 in the source), scaled so that a run of
\* MaxFiles files fills it.
concurrentFiles == 2
\* Part URLs requested per getPartURLs call (50 in the source), scaled so
\* that MaxParts parts need more than one request.
partURLBatchSize == 2

\* ------------------------------------------------- program constants
concurrentParts == 4
maxRetries == 3

VARIABLES
    cancelled,      \* ctx.Err() != nil (the caller's context)
    apiCalls,       \* the api.Client calls made so far, in order (history)
    \* ---- uploadFilesBatch
    nFiles,         \* len(paths)
    pc,             \* position of uploadFilesBatch
    files,          \* []*fileMetadata: uploadURL, r2Key, uploadErr, crc32
    plan,           \* what init-batch answered for each file
    batchStart,     \* loop variable of the init-batch / confirm-batch pages
    fi,             \* index of the transfer loop (range files)
    wstate,         \* position of each file's transfer goroutine
    uploadedCount,  \* var uploadedCount int64
    errorCount,     \* var errorCount int64
    toConfirm,      \* var toConfirm []*fileMetadata (as indices)
    created,        \* createCollection has returned success
    putOK,          \* files whose PUT completed with success
    confirmReqs,    \* the confirm-batch requests issued, each a page of files
    initReqs,       \* the init-batch requests issued, each a page of files
    readyCalled,    \* markCollectionReady has been called
    failedCall,     \* the remote call of this run that returned an error
    result,         \* what uploadFilesBatch returned
    \* ---- uploadMultipart
    totalParts,     \* initResp.TotalParts
    hasUploadID,    \* initResp.UploadID != ""
    knownURLs,      \* keys of initResp.InitialURLs
    urlReqs,        \* the GetPartURLs requests made so far (history)
    mpc,            \* position of uploadMultipart
    partNum,        \* loop variable of the launching loop
    pstate,         \* position of each part's goroutine
    parts,          \* var parts []api.Part (part numbers, in append order)
    uploadErr,      \* var uploadErr atomic.Value: 0 is nil, else the part
    firstFailed,    \* the part whose failure was recorded first (history)
    completeReq,    \* Parts of the completeMultipart request, once called
    completeCalled, \* completeMultipart has been called
    abortCalled,    \* AbortUpload has been called
    mpResult,       \* what uploadMultipart returned
    \* ---- uploadWithRetry
    outcomes,       \* fn: whether its n-th invocation returns nil
    rpc,            \* position of uploadWithRetry
    retryI,         \* loop variable i
    retryErr,       \* var err error: 0 is nil, n the error of invocation n
    invocations,    \* number of times fn was called (history)
    delays,         \* number of time.After(retryDelay) waits completed (history)
    cancelAt,       \* where the driver stood when ctx was cancelled (history)
    rResult,        \* what uploadWithRetry returned
    \* ---- UploadFiles / UploadFile
    asCollection,   \* parameter asCollection
    badPath,        \* first path that cannot be opened or stat'd, 0 if none
    upc,            \* position of UploadFiles / UploadFile
    sfType,         \* initResp.Type of the single-file negotiation
    sfPutOK,        \* the single file's transfer returned success
    upResult,       \* what UploadFiles returned
    \* ---- uploadSingle (the closure it hands to uploadWithRetry)
    content,        \* the bytes of the file
    cpc,            \* position of the closure
    fileOff,        \* read offset of the *os.File
    prCrc,          \* pr.crc of the attempt's progressReader
    prUploaded,     \* pr.uploaded of the attempt's progressReader
    attemptBytes,   \* the bytes read since the attempt began (history)
    fileCrc,        \* var fileCrc uint32
    discarded,      \* bytes read during the attempts that failed so far
    \* ---- progressReader, and the running total of uploadMultipart
    readers,        \* the progressReaders at work, with what they read (history)
    uploadedBytes,  \* var uploadedBytes int64
    \* ---- GetVisitorToken
    tokenData,      \* contents of the token file, <<>> if absent or empty
    tokenRet,       \* what each call returned and found, in order (history)
    generated,      \* number of generateToken calls (history)
    written,        \* number of os.WriteFile calls on the token file (history)
    touched,        \* someone else changed the file since the last call
    \* ---- pure functions
    callFn,         \* the function applied
    callArgs,       \* its arguments
    callRet         \* what it returned

batchVars == <<nFiles, pc, files, plan, batchStart, fi, wstate, uploadedCount,
               errorCount, toConfirm, created, putOK, confirmReqs, initReqs,
               readyCalled, failedCall, result>>
mpVars == <<totalParts, hasUploadID, knownURLs, urlReqs, mpc, partNum, pstate, parts,
            uploadErr, firstFailed, completeReq, completeCalled, abortCalled,
            mpResult>>
retryVars == <<outcomes, rpc, retryI, retryErr, invocations, delays, cancelAt,
               rResult>>
upVars == <<asCollection, badPath, upc, sfType, sfPutOK, upResult>>
putVars == <<content, cpc, fileOff, prCrc, prUploaded, attemptBytes, fileCrc,
             discarded>>
progVars == <<readers, uploadedBytes>>
tokenVars == <<tokenData, tokenRet, generated, written, touched>>
pureVars == <<callFn, callArgs, callRet>>
vars == <<cancelled, apiCalls, batchVars, mpVars, retryVars, upVars, putVars,
          progVars, tokenVars, pureVars>>

\* ------------------------------------------------------------ helpers
min(a, b) == IF a < b THEN a ELSE b

PartNumbersLoopStrict(i, end) == i < end

\* The condition of the for statement of generatePartNumbers: i <= end.
PartNumbersLoop(i, end) == i <= end

\* for i := start; i <= end; i++ { nums = append(nums, i) }
RECURSIVE PartNumbersFrom(_, _, _)
PartNumbersFrom(i, end, nums) ==
    IF PartNumbersLoop(i, end)
    THEN PartNumbersFrom(i + 1, end, Append(nums, i))
    ELSE nums

generatePartNumbers(start, end) == PartNumbersFrom(start, end, <<>>)

\* The elements of a slice.
Range(seq) == {seq[k] : k \in 1..Len(seq)}

\* What uploadMultipart returns: the kind of outcome and, for a part
\* failure, the part whose error is returned.
Returned(kind, part) == [kind |-> kind, part |-> part]

\* A remote call can succeed only while the context is not cancelled.
CallOutcomes == IF cancelled THEN {FALSE} ELSE {TRUE, FALSE}

\* ctx is cancelled by the caller (interrupt), at any moment.
Cancel ==
    /\ ~cancelled
    /\ cancelled' = TRUE
    /\ UNCHANGED <<apiCalls, batchVars, mpVars, retryVars, upVars,
                   putVars, progVars, tokenVars, pureVars>>

\* =====================================================================
\* uploadFilesBatch
\* =====================================================================
Plans == {"error", "single", "multipart", "missing"}

NoFile == [uploadURL |-> "", r2Key |-> "", uploadErr |-> "nil", crc32 |-> FALSE]

BatchIdle ==
    /\ nFiles = 0
    /\ pc = "idle"
    /\ files = <<>>
    /\ plan = <<>>
    /\ batchStart = 0
    /\ fi = 0
    /\ wstate = <<>>
    /\ uploadedCount = 0
    /\ errorCount = 0
    /\ toConfirm = <<>>
    /\ created = FALSE
    /\ putOK = {}
    /\ confirmReqs = <<>>
    /\ initReqs = <<>>
    /\ readyCalled = FALSE
    /\ failedCall = "none"
    /\ result = "none"

MPIdle ==
    /\ totalParts = 0
    /\ hasUploadID = FALSE
    /\ knownURLs = {}
    /\ urlReqs = <<>>
    /\ mpc = "idle"
    /\ partNum = 0
    /\ pstate = <<>>
    /\ parts = <<>>
    /\ uploadErr = 0
    /\ firstFailed = 0
    /\ completeReq = <<>>
    /\ completeCalled = FALSE
    /\ abortCalled = FALSE
    /\ mpResult = Returned("none", 0)

\* No uploadWithRetry call is being followed.
RetryIdle ==
    /\ outcomes = <<>>
    /\ rpc = "idle"
    /\ retryI = 0
    /\ retryErr = 0
    /\ invocations = 0
    /\ delays = 0
    /\ cancelAt = [phase |-> "none", inv |-> 0]
    /\ rResult = [kind |-> "none", attempt |-> 0]

\* No uploadSingle closure is being followed.
PutIdle ==
    /\ content = <<>>
    /\ cpc = "idle"
    /\ fileOff = 0
    /\ prCrc = 0
    /\ prUploaded = 0
    /\ attemptBytes = <<>>
    /\ fileCrc = 0
    /\ discarded = 0

\* No GetVisitorToken call is being followed.
TokenIdle ==
    /\ tokenData = <<>>
    /\ tokenRet = <<>>
    /\ generated = 0
    /\ written = 0
    /\ touched = FALSE

\* No pure function is being applied.
PureIdle ==
    /\ callFn = "none"
    /\ callArgs = <<>>
    /\ callRet = <<>>

\* No progressReader is being followed.
ProgIdle ==
    /\ readers = <<>>
    /\ uploadedBytes = 0

OthersIdle == PutIdle /\ TokenIdle /\ PureIdle /\ ProgIdle

\* The single-file path is not running.
SingleIdle ==
    /\ sfType = "none"
    /\ sfPutOK = FALSE
    /\ upResult = "none"

\* uploadFilesBatch(ctx, paths) is entered, with any number of paths and any
\* of them (or none) impossible to open.
InitBatch ==
    /\ cancelled = FALSE
    /\ apiCalls = <<>>
    /\ asCollection = TRUE
    /\ upc = "batch"
    /\ SingleIdle
    /\ RetryIdle
    /\ OthersIdle
    /\ nFiles \in 1..MaxFiles
    /\ badPath \in 0..nFiles
    /\ pc = "stat"
    /\ files = [i \in 1..nFiles |-> NoFile]
    /\ plan = [i \in 1..nFiles |-> "none"]
    /\ batchStart = 0
    /\ fi = 1
    /\ wstate = [i \in 1..nFiles |-> "idle"]
    /\ uploadedCount = 0
    /\ errorCount = 0
    /\ toConfirm = <<>>
    /\ created = FALSE
    /\ putOK = {}
    /\ confirmReqs = <<>>
    /\ initReqs = <<>>
    /\ readyCalled = FALSE
    /\ failedCall = "none"
    /\ result = "none"
    /\ MPIdle

PathsOKUnchecked == TRUE

\* os.Open and file.Stat succeed for every path of the list.
PathsOK == badPath = 0

\* Step 1: open and stat every path; any failure ends the run.
CollectMetadata ==
    /\ pc = "stat"
    /\ IF PathsOK
       THEN /\ pc' = "create"
            /\ UNCHANGED result
       ELSE /\ pc' = "done"
            /\ result' = "error"
    /\ UNCHANGED <<cancelled, apiCalls, nFiles, files, plan, batchStart, fi, wstate,
                   uploadedCount, errorCount, toConfirm, created, putOK,
                   confirmReqs, readyCalled, failedCall, mpVars, retryVars, upVars, initReqs,
                   putVars, progVars, tokenVars, pureVars>>

\* Step 2: createCollection.
CreateCollection ==
    /\ pc = "create"
    /\ \E ok \in CallOutcomes :
         IF ok
         THEN /\ created' = TRUE
              /\ pc' = "init"
              /\ UNCHANGED <<result, failedCall>>
         ELSE /\ failedCall' = "create"
              /\ result' = "error"
              /\ pc' = "done"
              /\ UNCHANGED created
    /\ apiCalls' = Append(apiCalls, "createCollection")
    /\ UNCHANGED <<cancelled, nFiles, files, plan, batchStart, fi, wstate,
                   uploadedCount, errorCount, toConfirm, putOK, confirmReqs,
                   readyCalled, mpVars, retryVars, upVars, initReqs,
                   putVars, progVars, tokenVars, pureVars>>

\* What the "Store results" loop leaves on a file for one init-batch result.
StoreResult(f, r) ==
    CASE r = "error"     -> [f EXCEPT !.uploadErr = "nego"]
      [] r = "single"    -> [f EXCEPT !.uploadURL = "url", !.r2Key = "key"]
      [] r = "multipart" -> [f EXCEPT !.r2Key = "key"]
      [] OTHER           -> f

\* A mutant of ResultIndex: the file's index in the whole run.
ResultIndexGlobal(i, start) == start + i

\* idxStr := strconv.Itoa(i): the key under which the result of the i-th
\* file (from 0) of the page that starts at `start` is looked up.
ResultIndex(i, start) == i

\* initResp.Results[idxStr]; "missing" stands for no entry.
LookupResult(results, key) ==
    IF key \in DOMAIN results THEN results[key] ELSE "missing"

InitPageWhole(start, n) == [k \in 1..n |-> k]

\* batch := files[batchStart:batchEnd], as the indices of its files.
InitPage(start, n) ==
    [k \in 1..(min(start + batchSize, n) - start) |-> start + k]

\* Step 3: one page of init-batch, files batchStart+1 .. batchEnd; the
\* response holds one result per file of the page, keyed from 0.
InitUploadBatch ==
    /\ pc = "init"
    /\ LET batchEnd == min(batchStart + batchSize, nFiles)
           batch == InitPage(batchStart, nFiles)
           page == Range(batch)
           pos(i) == (CHOOSE k \in 1..Len(batch) : batch[k] = i) - 1
           got(resp, i) ==
               LookupResult(resp, ResultIndex(pos(i), batchStart))
       IN \E ok \in CallOutcomes :
            IF ok
            THEN \E resp \in [0 .. (Len(batch) - 1) -> Plans] :
                   /\ plan' = [i \in 1..nFiles |->
                                 IF i \in page
                                 THEN resp[pos(i)] ELSE plan[i]]
                   /\ files' = [i \in 1..nFiles |->
                                 IF i \in page
                                 THEN StoreResult(files[i], got(resp, i))
                                 ELSE files[i]]
                   /\ IF batchEnd < nFiles
                      THEN /\ batchStart' = batchStart + batchSize
                           /\ pc' = "init"
                      ELSE /\ batchStart' = 0
                           /\ pc' = "loop"
                   /\ UNCHANGED <<result, failedCall>>
            ELSE /\ failedCall' = "init"
                 /\ result' = "error"
                 /\ pc' = "done"
                 /\ UNCHANGED <<plan, files, batchStart>>
    /\ apiCalls' = Append(apiCalls, "initBatch")
    /\ initReqs' = Append(initReqs, InitPage(batchStart, nFiles))
    /\ UNCHANGED <<cancelled, nFiles, fi, wstate, uploadedCount, errorCount,
                   toConfirm, created, putOK, confirmReqs, readyCalled, mpVars, retryVars, upVars,
                   putVars, progVars, tokenVars, pureVars>>

InFlightFilesNeverReleased == {i \in 1..nFiles : wstate[i] # "idle"}

\* The goroutines that hold a slot of sem and have not called wg.Done():
\* both are given back by the deferred calls when the goroutine ends.
InFlightFiles == {i \in 1..nFiles : wstate[i] \in {"launched", "putting"}}

\* A mutant of Launchable: every file is handed to a worker.
LaunchableAlways(f) == TRUE

\* The launch condition of the transfer loop: the file is skipped and counted
\* as failed when this is false.
Launchable(f) == ~(f.uploadErr # "nil" \/ f.uploadURL = "")

\* A mutant of BreakLoop: the loop also stops once a transfer has failed.
BreakLoopOnError ==
    cancelled \/ \E j \in 1..nFiles : files[j].uploadErr = "xfer"

\* "if ctx.Err() != nil { break }": the only early exit of the loop.
BreakLoop == cancelled

\* A mutant of AtomicAddInt64: the increment is lost.
AtomicAddLost(n) == n

\* atomic.AddInt64(&counter, 1): one indivisible increment, whatever the
\* other goroutines do.
AtomicAddInt64(n) == n + 1

\* Step 4, top of one iteration of "for _, f := range files".
TransferLoop ==
    /\ pc = "loop"
    /\ IF fi > nFiles \/ BreakLoop
       THEN /\ pc' = "wait"
            /\ UNCHANGED <<fi, errorCount>>
       ELSE IF ~Launchable(files[fi])
            THEN /\ errorCount' = AtomicAddInt64(errorCount)
                 /\ fi' = fi + 1
                 /\ UNCHANGED pc
            ELSE /\ pc' = "acquire"
                 /\ UNCHANGED <<fi, errorCount>>
    /\ UNCHANGED <<cancelled, apiCalls, nFiles, files, plan, batchStart, wstate,
                   uploadedCount, toConfirm, created, putOK, confirmReqs,
                   readyCalled, failedCall, result, mpVars, retryVars, upVars, initReqs,
                   putVars, progVars, tokenVars, pureVars>>

FileSlotFreeAlways(held) == TRUE

\* sem := make(chan struct{}, concurrentFiles): a send on the channel goes
\* through only while fewer than concurrentFiles workers hold a slot.
FileSlotFree(held) == held < concurrentFiles

\* sem <- struct{}{} and the go statement.
LaunchFile ==
    /\ pc = "acquire"
    /\ FileSlotFree(Cardinality(InFlightFiles))
    /\ wstate' = [wstate EXCEPT ![fi] = "launched"]
    /\ fi' = fi + 1
    /\ pc' = "loop"
    /\ UNCHANGED <<cancelled, apiCalls, nFiles, files, plan, batchStart, uploadedCount,
                   errorCount, toConfirm, created, putOK, confirmReqs,
                   readyCalled, failedCall, result, mpVars, retryVars, upVars, initReqs,
                   putVars, progVars, tokenVars, pureVars>>

WorkerRecordLoopVar(i, cur) == min(cur, nFiles)

\* go func(fm *fileMetadata) {...}(f): the record the goroutine of file i
\* works on is the one passed at the go statement, wherever the loop
\* variable (cur) has moved since.
WorkerRecord(i, cur) == i

\* The goroutine's failure branch: fm.uploadErr = err; errorCount++.
FileFailed(i) ==
    /\ files' = [files EXCEPT ![WorkerRecord(i, fi)].uploadErr = "xfer"]
    /\ errorCount' = AtomicAddInt64(errorCount)
    /\ wstate' = [wstate EXCEPT ![i] = "done"]
    /\ UNCHANGED <<uploadedCount, putOK>>

\* The goroutine's success branch: fm.crc32 set; uploadedCount++.
FileUploaded(i) ==
    /\ files' = [files EXCEPT ![WorkerRecord(i, fi)].crc32 = TRUE]
    /\ uploadedCount' = AtomicAddInt64(uploadedCount)
    /\ putOK' = putOK \cup {i}
    /\ wstate' = [wstate EXCEPT ![i] = "done"]
    /\ UNCHANGED errorCount

\* uploadFileToR2 up to the first attempt: os.Open, then uploadWithRetry's
\* check of ctx before it calls the PUT.
FileWorkerStart(i) ==
    /\ wstate[i] = "launched"
    /\ \E opened \in BOOLEAN :
         IF opened /\ ~cancelled
         THEN /\ wstate' = [wstate EXCEPT ![i] = "putting"]
              /\ UNCHANGED <<files, errorCount, uploadedCount, putOK>>
         ELSE FileFailed(i)
    /\ UNCHANGED <<cancelled, apiCalls, nFiles, pc, plan, batchStart, fi, toConfirm,
                   created, confirmReqs, readyCalled, failedCall, result, mpVars, retryVars, upVars, initReqs,
                   putVars, progVars, tokenVars, pureVars>>

\* uploadSingle under uploadWithRetry returns: success of some attempt, or
\* the error left after the attempts (or the context's error).
FileWorkerEnd(i) ==
    /\ wstate[i] = "putting"
    /\ \/ FileUploaded(i)
       \/ FileFailed(i)
    /\ UNCHANGED <<cancelled, apiCalls, nFiles, pc, plan, batchStart, fi, toConfirm,
                   created, confirmReqs, readyCalled, failedCall, result, mpVars, retryVars, upVars, initReqs,
                   putVars, progVars, tokenVars, pureVars>>

RECURSIVE SelectIdx(_, _, _)
SelectIdx(fs, i, n) ==
    IF i > n THEN <<>>
    ELSE (IF fs[i].uploadErr = "nil" /\ fs[i].r2Key # "" THEN <<i>> ELSE <<>>)
         \o SelectIdx(fs, i + 1, n)

\* "Collect successfully uploaded files": the filter as the code writes it.
CollectToConfirm(fs) == SelectIdx(fs, 1, Len(fs))

\* wg.Wait(), then the collection of toConfirm.
WgWaitSkipped(running) == TRUE

\* wg.Wait() returns once every goroutine that was started has called
\* wg.Done().
WgWaitReturns(running) == running = {}

WaitFiles ==
    /\ pc = "wait"
    /\ WgWaitReturns(InFlightFiles)
    /\ toConfirm' = CollectToConfirm(files)
    /\ batchStart' = 0
    /\ pc' = IF CollectToConfirm(files) = <<>> THEN "ready" ELSE "confirm"
    /\ UNCHANGED <<cancelled, apiCalls, nFiles, files, plan, fi, wstate, uploadedCount,
                   errorCount, created, putOK, confirmReqs, readyCalled,
                   failedCall, result, mpVars, retryVars, upVars, initReqs,
                   putVars, progVars, tokenVars, pureVars>>

ConfirmPageFromFirst(list, start, end) == SubSeq(list, 1, end)

ConfirmPageToEnd(list, start, end) == SubSeq(list, start + 1, Len(list))

\* batch := toConfirm[batchStart:batchEnd]
ConfirmPage(list, start, end) == SubSeq(list, start + 1, end)

\* Step 5: one page of confirm-batch.
ConfirmUploadBatch ==
    /\ pc = "confirm"
    /\ LET batchEnd == min(batchStart + batchSize, Len(toConfirm))
           page == ConfirmPage(toConfirm, batchStart, batchEnd)
       IN /\ confirmReqs' = Append(confirmReqs, page)
          /\ \E ok \in CallOutcomes :
               IF ok
               THEN /\ IF batchEnd < Len(toConfirm)
                       THEN /\ batchStart' = batchStart + batchSize
                            /\ pc' = "confirm"
                       ELSE /\ batchStart' = 0
                            /\ pc' = "ready"
                    /\ UNCHANGED <<result, failedCall>>
               ELSE /\ failedCall' = "confirm"
                    /\ result' = "error"
                    /\ pc' = "done"
                    /\ UNCHANGED batchStart
    /\ apiCalls' = Append(apiCalls, "confirmBatch")
    /\ UNCHANGED <<cancelled, nFiles, files, plan, fi, wstate, uploadedCount,
                   errorCount, toConfirm, created, putOK, readyCalled, mpVars, retryVars, upVars, initReqs,
                   putVars, progVars, tokenVars, pureVars>>

\* A mutant of BatchOutcome: file failures make the run fail.
BatchOutcomeStrict(errs) == IF errs > 0 THEN "error" ELSE "collection"

\* After markCollectionReady succeeded: the warning is printed when
\* errorCount > 0, and the collection result is returned in either case.
BatchOutcome(errs) == "collection"

\* Step 6: markCollectionReady and the return.
MarkCollectionReady ==
    /\ pc = "ready"
    /\ readyCalled' = TRUE
    /\ pc' = "done"
    /\ \E ok \in CallOutcomes :
         IF ok
         THEN /\ result' = BatchOutcome(errorCount)
              /\ UNCHANGED failedCall
         ELSE /\ result' = "error"
              /\ failedCall' = "ready"
    /\ apiCalls' = Append(apiCalls, "markCollectionReady")
    /\ UNCHANGED <<cancelled, nFiles, files, plan, batchStart, fi, wstate,
                   uploadedCount, errorCount, toConfirm, created, putOK,
                   confirmReqs, mpVars, retryVars, upVars, initReqs,
                   putVars, progVars, tokenVars, pureVars>>

CancelBatch == pc # "done" /\ Cancel

NextBatch ==
    \/ CollectMetadata
    \/ CreateCollection
    \/ InitUploadBatch
    \/ TransferLoop
    \/ LaunchFile
    \/ \E i \in 1..nFiles : FileWorkerStart(i)
    \/ \E i \in 1..nFiles : FileWorkerEnd(i)
    \/ WaitFiles
    \/ ConfirmUploadBatch
    \/ MarkCollectionReady
    \/ CancelBatch

SpecBatch == InitBatch /\ [][NextBatch]_vars

\* =====================================================================
\* uploadMultipart
\* =====================================================================
InitMP ==
    /\ cancelled = FALSE
    /\ totalParts \in 1..MaxParts
    /\ hasUploadID \in BOOLEAN
    /\ \E nInit \in 0..totalParts : knownURLs = 1..nInit
    /\ urlReqs = <<>>
    /\ mpc = "check"
    /\ partNum = 1
    /\ pstate = [p \in 1..totalParts |-> "idle"]
    /\ parts = <<>>
    /\ uploadErr = 0
    /\ firstFailed = 0
    /\ completeReq = <<>>
    /\ completeCalled = FALSE
    /\ abortCalled = FALSE
    /\ mpResult = Returned("none", 0)
    /\ BatchIdle
    /\ apiCalls = <<>>
    /\ asCollection = FALSE
    /\ badPath = 0
    /\ upc = "multipart"
    /\ SingleIdle
    /\ RetryIdle
    /\ OthersIdle

InFlightParts == {p \in 1..totalParts : pstate[p] \in {"launched", "putting"}}

\* Top of one iteration of the launching loop: the checks of ctx and of
\* uploadErr, then the lookup of the part's URL.
PartLoop ==
    /\ mpc = "check"
    /\ mpc' = IF partNum > totalParts \/ cancelled \/ uploadErr # 0 THEN "wait"
              ELSE IF partNum \in knownURLs THEN "acquire"
              ELSE "geturl"
    /\ UNCHANGED <<cancelled, apiCalls, batchVars, retryVars, upVars, totalParts, hasUploadID, knownURLs,
                   urlReqs,
                   partNum, pstate, parts, uploadErr, firstFailed, completeReq,
                   completeCalled, abortCalled, mpResult,
                   putVars, progVars, tokenVars, pureVars>>

URLBatchEndUnclamped(p, total) == p + partURLBatchSize - 1

\* min(partNum+partURLBatchSize-1, initResp.TotalParts)
URLBatchEnd(p, total) == min(p + partURLBatchSize - 1, total)

\* "Fetch more URLs": on an error the function returns at once.
GetPartURLs ==
    /\ mpc = "geturl"
    /\ \E ok \in CallOutcomes :
         IF ok
         THEN /\ knownURLs' = knownURLs \cup
                    Range(generatePartNumbers(partNum,
                        URLBatchEnd(partNum, totalParts)))
              /\ mpc' = "acquire"
              /\ UNCHANGED mpResult
         ELSE /\ mpResult' = Returned("urlfail", 0)
              /\ mpc' = "defer"
              /\ UNCHANGED knownURLs
    /\ apiCalls' = Append(apiCalls, "getPartURLs")
    /\ urlReqs' = Append(urlReqs,
           [part |-> partNum,
            numbers |-> generatePartNumbers(partNum,
                            URLBatchEnd(partNum, totalParts))])
    /\ UNCHANGED <<cancelled, batchVars, retryVars, upVars, totalParts, hasUploadID, partNum,
                   pstate, parts, uploadErr, firstFailed, completeReq,
                   completeCalled, abortCalled,
                   putVars, progVars, tokenVars, pureVars>>

PartSlotFreeAlways(held) == TRUE

\* sem := make(chan struct{}, concurrentParts): a send on the channel goes
\* through only while fewer than concurrentParts workers hold a slot.
PartSlotFree(held) == held < concurrentParts

\* wg.Add(1); sem <- struct{}{}; go func(...).
LaunchPart ==
    /\ mpc = "acquire"
    /\ PartSlotFree(Cardinality(InFlightParts))
    /\ pstate' = [pstate EXCEPT ![partNum] = "launched"]
    /\ partNum' = partNum + 1
    /\ mpc' = "check"
    /\ UNCHANGED <<cancelled, apiCalls, batchVars, retryVars, upVars, totalParts, hasUploadID, knownURLs,
                   urlReqs,
                   parts, uploadErr, firstFailed, completeReq, completeCalled,
                   abortCalled, mpResult,
                   putVars, progVars, tokenVars, pureVars>>

\* A mutant of RecordErr: the failure is not stored.
RecordErrNever(cur, p) == cur

\* A mutant of RecordErr: a plain Store, the last failure wins.
RecordErrLast(cur, p) == p

\* uploadErr.CompareAndSwap(nil, err): the value kept after part p fails.
RecordErr(cur, p) == IF cur = 0 THEN p ELSE cur

\* The goroutine's failure branch.
PartFailed(p) ==
    /\ uploadErr' = RecordErr(uploadErr, p)
    /\ firstFailed' = IF firstFailed = 0 THEN p ELSE firstFailed
    /\ pstate' = [pstate EXCEPT ![p] = "failed"]
    /\ UNCHANGED parts

\* The list passed on after part p completes: parts = append(parts, ...).
AppendPart(ps, p) == Append(ps, p)

\* The goroutine's success branch.
PartUploaded(p) ==
    /\ parts' = AppendPart(parts, p)
    /\ pstate' = [pstate EXCEPT ![p] = "ok"]
    /\ UNCHANGED <<uploadErr, firstFailed>>

\* uploadPart up to the first attempt: uploadWithRetry's check of ctx.
PartWorkerStart(p) ==
    /\ pstate[p] = "launched"
    /\ IF cancelled
       THEN PartFailed(p)
       ELSE /\ pstate' = [pstate EXCEPT ![p] = "putting"]
            /\ UNCHANGED <<parts, uploadErr, firstFailed>>
    /\ UNCHANGED <<cancelled, apiCalls, batchVars, retryVars, upVars, totalParts, hasUploadID, knownURLs,
                   urlReqs,
                   mpc, partNum, completeReq, completeCalled, abortCalled,
                   mpResult,
                   putVars, progVars, tokenVars, pureVars>>

\* uploadPart under uploadWithRetry returns: an ETag, or the error left
\* after the attempts (a missing ETag included), or the context's error.
PartWorkerEnd(p) ==
    /\ pstate[p] = "putting"
    /\ \/ PartUploaded(p)
       \/ PartFailed(p)
    /\ UNCHANGED <<cancelled, apiCalls, batchVars, retryVars, upVars, totalParts, hasUploadID, knownURLs,
                   urlReqs,
                   mpc, partNum, completeReq, completeCalled, abortCalled,
                   mpResult,
                   putVars, progVars, tokenVars, pureVars>>

AfterWaitErrFirst(ctxErr, err) ==
    IF err # 0 THEN "partfail" ELSE IF ctxErr THEN "cancelled" ELSE "complete"

\* The two checks after wg.Wait(), in the source's order: ctx.Err() first
\* ("upload cancelled"), then uploadErr, else on to completeMultipart.
AfterWait(ctxErr, err) ==
    IF ctxErr THEN "cancelled" ELSE IF err # 0 THEN "partfail" ELSE "complete"

\* wg.Wait(), then the checks of ctx.Err() and of uploadErr.
WaitParts ==
    /\ mpc = "wait"
    /\ InFlightParts = {}
    /\ IF AfterWait(cancelled, uploadErr) = "complete"
       THEN /\ mpc' = "complete"
            /\ UNCHANGED mpResult
       ELSE /\ mpResult' = Returned(AfterWait(cancelled, uploadErr),
                                     IF AfterWait(cancelled, uploadErr) = "partfail"
                                     THEN uploadErr ELSE 0)
            /\ mpc' = "defer"
    /\ UNCHANGED <<cancelled, apiCalls, batchVars, retryVars, upVars, totalParts, hasUploadID, knownURLs,
                   urlReqs,
                   partNum, pstate, parts, uploadErr, firstFailed, completeReq,
                   completeCalled, abortCalled,
                   putVars, progVars, tokenVars, pureVars>>

\* The Parts field of the completeMultipart request.
CompleteParts(ps) == ps

\* CompleteMultipart(ctx, {UploadID, Parts: parts}).
CompleteMultipart ==
    /\ mpc = "complete"
    /\ completeCalled' = TRUE
    /\ completeReq' = CompleteParts(parts)
    /\ \E ok \in CallOutcomes :
         IF ok
         THEN /\ mpc' = "crc"
              /\ UNCHANGED mpResult
         ELSE /\ mpResult' = Returned("completefail", 0)
              /\ mpc' = "defer"
    /\ apiCalls' = Append(apiCalls, "completeMultipart")
    /\ UNCHANGED <<cancelled, batchVars, retryVars, upVars, totalParts, hasUploadID, knownURLs,
                   urlReqs,
                   partNum, pstate, parts, uploadErr, firstFailed, abortCalled,
                   putVars, progVars, tokenVars, pureVars>>

\* The sequential re-read of the file for the CRC-32, and the return.
ComputeCRC ==
    /\ mpc = "crc"
    /\ \E ok \in BOOLEAN : mpResult' = Returned(IF ok THEN "ok" ELSE "crcfail", 0)
    /\ mpc' = "defer"
    /\ UNCHANGED <<cancelled, apiCalls, batchVars, retryVars, upVars, totalParts, hasUploadID, knownURLs,
                   urlReqs,
                   partNum, pstate, parts, uploadErr, firstFailed, completeReq,
                   completeCalled, abortCalled,
                   putVars, progVars, tokenVars, pureVars>>

\* A mutant of AbortWanted: the cleanup never runs.
AbortWantedNever == FALSE

\* The condition of the deferred cleanup.
AbortWanted == cancelled /\ hasUploadID

\* The deferred function: AbortUpload under its own context, its result
\* dropped.
DeferredAbort ==
    /\ mpc = "defer"
    /\ abortCalled' = AbortWanted
    /\ mpc' = "done"
    /\ apiCalls' = IF AbortWanted THEN Append(apiCalls, "abortUpload") ELSE apiCalls
    /\ UNCHANGED <<cancelled, batchVars, retryVars, upVars, totalParts, hasUploadID, knownURLs,
                   urlReqs,
                   partNum, pstate, parts, uploadErr, firstFailed, completeReq,
                   completeCalled, mpResult,
                   putVars, progVars, tokenVars, pureVars>>

CancelMP == mpc # "done" /\ Cancel

NextMP ==
    \/ PartLoop
    \/ GetPartURLs
    \/ LaunchPart
    \/ \E p \in 1..totalParts : PartWorkerStart(p)
    \/ \E p \in 1..totalParts : PartWorkerEnd(p)
    \/ WaitParts
    \/ CompleteMultipart
    \/ ComputeCRC
    \/ DeferredAbort
    \/ CancelMP

SpecMP == InitMP /\ [][NextMP]_vars

\* =====================================================================
\* uploadWithRetry
\* =====================================================================
\* uploadWithRetry(ctx, fn) is entered, fn being any operation whose n-th
\* invocation returns nil or an error of its own.
InitRetry ==
    /\ cancelled = FALSE
    /\ apiCalls = <<>>
    /\ outcomes \in [1..maxRetries -> BOOLEAN]
    /\ rpc = "loop"
    /\ retryI = 0
    /\ retryErr = 0
    /\ invocations = 0
    /\ delays = 0
    /\ cancelAt = [phase |-> "none", inv |-> 0]
    /\ rResult = [kind |-> "none", attempt |-> 0]
    /\ asCollection = FALSE
    /\ badPath = 0
    /\ upc = "retry"
    /\ SingleIdle
    /\ BatchIdle
    /\ MPIdle
    /\ OthersIdle

LoopCtxErrIgnored == FALSE

\* if ctx.Err() != nil, at the top of an iteration.
LoopCtxErr == cancelled

\* Top of the for statement: the loop condition, then the check of ctx, then
\* the call of fn.
RetryLoop ==
    /\ rpc = "loop"
    /\ IF retryI >= maxRetries
       THEN /\ rResult' = [kind |-> "op", attempt |-> retryErr]
            /\ rpc' = "done"
            /\ UNCHANGED invocations
       ELSE IF LoopCtxErr
            THEN /\ rResult' = [kind |-> "ctx", attempt |-> 0]
                 /\ rpc' = "done"
                 /\ UNCHANGED invocations
            ELSE /\ invocations' = invocations + 1
                 /\ rpc' = "call"
                 /\ UNCHANGED rResult
    /\ UNCHANGED <<cancelled, apiCalls, outcomes, retryI, retryErr, delays,
                   cancelAt, batchVars, mpVars, upVars,
                   putVars, progVars, tokenVars, pureVars>>

ShouldWaitNever(i) == FALSE

ShouldWaitAlways(i) == TRUE

\* if i < maxRetries-1: a wait follows every failed attempt but the last.
ShouldWait(i) == i < maxRetries - 1

\* fn returns: nil ends the driver; an error is kept in err and leads to the
\* wait or straight to the next iteration.  An attempt during which ctx was
\* cancelled may fail whatever fn would have answered.
RetryCallReturns ==
    /\ rpc = "call"
    /\ \E ok \in {outcomes[invocations]} \cup (IF cancelled THEN {FALSE} ELSE {}) :
         IF ok
         THEN /\ rResult' = [kind |-> "nil", attempt |-> 0]
              /\ retryErr' = 0
              /\ rpc' = "done"
              /\ UNCHANGED retryI
         ELSE /\ retryErr' = invocations
              /\ IF ShouldWait(retryI)
                 THEN /\ rpc' = "wait"
                      /\ UNCHANGED retryI
                 ELSE /\ rpc' = "loop"
                      /\ retryI' = retryI + 1
              /\ UNCHANGED rResult
    /\ UNCHANGED <<cancelled, apiCalls, outcomes, invocations, delays, cancelAt,
                   batchVars, mpVars, upVars,
                   putVars, progVars, tokenVars, pureVars>>

\* select, case <-time.After(retryDelay): the delay has passed; i++.
RetryDelayElapsed ==
    /\ rpc = "wait"
    /\ delays' = delays + 1
    /\ retryI' = retryI + 1
    /\ rpc' = "loop"
    /\ UNCHANGED <<cancelled, apiCalls, outcomes, retryErr, invocations,
                   cancelAt, rResult, batchVars, mpVars, upVars,
                   putVars, progVars, tokenVars, pureVars>>

\* select, case <-ctx.Done(): return ctx.Err().
RetryWaitCancelled ==
    /\ rpc = "wait"
    /\ cancelled
    /\ rResult' = [kind |-> "ctx", attempt |-> 0]
    /\ rpc' = "done"
    /\ UNCHANGED <<cancelled, apiCalls, outcomes, retryI, retryErr, invocations,
                   delays, cancelAt, batchVars, mpVars, upVars,
                   putVars, progVars, tokenVars, pureVars>>

\* Where the driver stands: before an attempt, in fn, in the wait, or past
\* the last attempt.
RetryPhase ==
    IF rpc = "loop" THEN (IF retryI < maxRetries THEN "before" ELSE "exit")
    ELSE rpc

\* ctx is cancelled while the driver runs.
CancelRetry ==
    /\ rpc # "done"
    /\ ~cancelled
    /\ cancelled' = TRUE
    /\ cancelAt' = [phase |-> RetryPhase, inv |-> invocations]
    /\ UNCHANGED <<apiCalls, outcomes, rpc, retryI, retryErr, invocations,
                   delays, rResult, batchVars, mpVars, upVars,
                   putVars, progVars, tokenVars, pureVars>>

NextRetry ==
    \/ RetryLoop
    \/ RetryCallReturns
    \/ RetryDelayElapsed
    \/ RetryWaitCancelled
    \/ CancelRetry

SpecRetry == InitRetry /\ [][NextRetry]_vars


\* =====================================================================
\* UploadFiles and UploadFile
\* =====================================================================
\* UploadFiles(ctx, paths, asCollection) is entered with any number of
\* paths, any of them (or none) impossible to open, and either flag.
InitUpload ==
    /\ cancelled = FALSE
    /\ apiCalls = <<>>
    /\ nFiles \in 0..MaxFiles
    /\ badPath \in 0..nFiles
    /\ asCollection \in BOOLEAN
    /\ upc = "start"
    /\ SingleIdle
    /\ pc = "idle"
    /\ files = [i \in 1..nFiles |-> NoFile]
    /\ plan = [i \in 1..nFiles |-> "none"]
    /\ batchStart = 0
    /\ fi = 1
    /\ wstate = [i \in 1..nFiles |-> "idle"]
    /\ uploadedCount = 0
    /\ errorCount = 0
    /\ toConfirm = <<>>
    /\ created = FALSE
    /\ putOK = {}
    /\ confirmReqs = <<>>
    /\ initReqs = <<>>
    /\ readyCalled = FALSE
    /\ failedCall = "none"
    /\ result = "none"
    /\ MPIdle
    /\ RetryIdle
    /\ OthersIdle

StrategyByCount(n, coll) ==
    IF n = 0 THEN "none" ELSE IF n = 1 THEN "single" ELSE "batch"

\* The two tests of UploadFiles: len(paths) == 0, then
\* len(paths) == 1 && !asCollection, else the batch.
Strategy(n, coll) ==
    IF n = 0 THEN "none" ELSE IF n = 1 /\ ~coll THEN "single" ELSE "batch"

\* UploadFiles up to the call it hands the paths to.
UploadFiles ==
    /\ upc = "start"
    /\ CASE Strategy(nFiles, asCollection) = "none" ->
               /\ upc' = "done"
               /\ upResult' = "error"
               /\ UNCHANGED pc
         [] Strategy(nFiles, asCollection) = "single" ->
               /\ upc' = "single"
               /\ UNCHANGED <<upResult, pc>>
         [] OTHER ->
               /\ upc' = "batch"
               /\ pc' = "stat"
               /\ UNCHANGED upResult
    /\ UNCHANGED <<cancelled, apiCalls, nFiles, files, plan, batchStart, fi,
                   wstate, uploadedCount, errorCount, toConfirm, created, putOK,
                   confirmReqs, readyCalled, failedCall, result, mpVars,
                   retryVars, asCollection, badPath, sfType, sfPutOK, initReqs,
                   putVars, progVars, tokenVars, pureVars>>

\* UploadFile returns an error, which UploadFiles passes on.
SingleFails ==
    /\ upc' = "done"
    /\ upResult' = "error"

\* UploadFile: the check of ctx, then os.Open and file.Stat.
SingleOpen ==
    /\ upc = "single"
    /\ IF cancelled \/ ~PathsOK
       THEN SingleFails
       ELSE /\ upc' = "sf_init"
            /\ UNCHANGED upResult
    /\ UNCHANGED <<cancelled, apiCalls, batchVars, mpVars, retryVars,
                   asCollection, badPath, sfType, sfPutOK,
                   putVars, progVars, tokenVars, pureVars>>

\* UploadFile: InitUpload, and the branch on initResp.Type; the multipart
\* branch enters uploadMultipart with the negotiated session.
SingleInit ==
    /\ upc = "sf_init"
    /\ apiCalls' = Append(apiCalls, "initUpload")
    /\ \E ok \in CallOutcomes :
         IF ~ok
         THEN /\ SingleFails
              /\ UNCHANGED <<sfType, mpVars>>
         ELSE \/ /\ sfType' = "single"
                 /\ upc' = "sf_put"
                 /\ UNCHANGED <<upResult, mpVars>>
              \/ /\ sfType' = "multipart"
                 /\ upc' = "sf_multipart"
                 /\ totalParts' \in 1..MaxParts
                 /\ hasUploadID' \in BOOLEAN
                 /\ \E nInit \in 0..totalParts' : knownURLs' = 1..nInit
                 /\ mpc' = "check"
                 /\ partNum' = 1
                 /\ pstate' = [p \in 1..totalParts' |-> "idle"]
                 /\ UNCHANGED <<upResult, urlReqs, parts, uploadErr, firstFailed,
                                completeReq, completeCalled, abortCalled,
                                mpResult>>
    /\ UNCHANGED <<cancelled, batchVars, retryVars, asCollection, badPath,
                   sfPutOK,
                   putVars, progVars, tokenVars, pureVars>>

\* UploadFile: uploadSingle returns.
SinglePut ==
    /\ upc = "sf_put"
    /\ \E ok \in CallOutcomes :
         IF ok
         THEN /\ sfPutOK' = TRUE
              /\ upc' = "sf_confirm"
              /\ UNCHANGED upResult
         ELSE /\ SingleFails
              /\ UNCHANGED sfPutOK
    /\ UNCHANGED <<cancelled, apiCalls, batchVars, mpVars, retryVars,
                   asCollection, badPath, sfType,
                   putVars, progVars, tokenVars, pureVars>>

TransferOKAlways(kind) == TRUE

\* if err != nil { return nil, err } after the transfer step.
TransferOK(kind) == kind = "ok"

\* UploadFile: uploadMultipart returns.
SingleMultipartReturns ==
    /\ upc = "sf_multipart"
    /\ mpc = "done"
    /\ IF TransferOK(mpResult.kind)
       THEN /\ sfPutOK' = TRUE
            /\ upc' = "sf_confirm"
            /\ UNCHANGED upResult
       ELSE /\ SingleFails
            /\ UNCHANGED sfPutOK
    /\ UNCHANGED <<cancelled, apiCalls, batchVars, mpVars, retryVars,
                   asCollection, badPath, sfType,
                   putVars, progVars, tokenVars, pureVars>>

\* UploadFile: ConfirmUpload with initResp.R2Key, and the return.
SingleConfirm ==
    /\ upc = "sf_confirm"
    /\ apiCalls' = Append(apiCalls, "confirmUpload")
    /\ upc' = "done"
    /\ \E ok \in CallOutcomes : upResult' = IF ok THEN "file" ELSE "error"
    /\ UNCHANGED <<cancelled, batchVars, mpVars, retryVars, asCollection,
                   badPath, sfType, sfPutOK,
                   putVars, progVars, tokenVars, pureVars>>

\* return u.uploadFilesBatch(ctx, paths)
BatchReturns ==
    /\ upc = "batch"
    /\ pc = "done"
    /\ upc' = "done"
    /\ upResult' = result
    /\ UNCHANGED <<cancelled, apiCalls, batchVars, mpVars, retryVars,
                   asCollection, badPath, sfType, sfPutOK,
                   putVars, progVars, tokenVars, pureVars>>

\* Result.IsCollection of what UploadFiles returned.
IsCollection(res) == res = "collection"

CancelUpload == upc # "done" /\ Cancel

NextUpload ==
    \/ UploadFiles
    \/ SingleOpen
    \/ SingleInit
    \/ SinglePut
    \/ SingleMultipartReturns
    \/ SingleConfirm
    \/ BatchReturns
    \/ CancelUpload
    \/ CollectMetadata
    \/ CreateCollection
    \/ InitUploadBatch
    \/ TransferLoop
    \/ LaunchFile
    \/ \E i \in 1..nFiles : FileWorkerStart(i)
    \/ \E i \in 1..nFiles : FileWorkerEnd(i)
    \/ WaitFiles
    \/ ConfirmUploadBatch
    \/ MarkCollectionReady
    \/ PartLoop
    \/ GetPartURLs
    \/ LaunchPart
    \/ \E p \in 1..totalParts : PartWorkerStart(p)
    \/ \E p \in 1..totalParts : PartWorkerEnd(p)
    \/ WaitParts
    \/ CompleteMultipart
    \/ ComputeCRC
    \/ DeferredAbort

SpecUpload == InitUpload /\ [][NextUpload]_vars

\* =====================================================================
\* uploadSingle: the closure run by uploadWithRetry
\* =====================================================================
Bytes == {0, 1}

Contents == UNION {[1..n -> Bytes] : n \in 0..MaxContent}

\* crc32.Update(crc, table, p): a checksum that is updated byte by byte
\* and tells apart any two byte sequences of the lengths used here.
RECURSIVE crcUpdate(_, _)
crcUpdate(crc, p) ==
    IF p = <<>> THEN crc
    ELSE crcUpdate(crc * 3 + Head(p) + 1, Tail(p))

KeptAccumulator(old) == old

\* pr := &progressReader{...}: crc and uploaded start at their zero value.
NewAccumulator(old) == 0

InitSingle ==
    /\ cancelled = FALSE
    /\ apiCalls = <<>>
    /\ outcomes \in [1..maxRetries -> BOOLEAN]
    /\ rpc = "loop"
    /\ retryI = 0
    /\ retryErr = 0
    /\ invocations = 0
    /\ delays = 0
    /\ cancelAt = [phase |-> "none", inv |-> 0]
    /\ rResult = [kind |-> "none", attempt |-> 0]
    /\ asCollection = FALSE
    /\ badPath = 0
    /\ upc = "put"
    /\ SingleIdle
    /\ BatchIdle
    /\ MPIdle
    /\ TokenIdle
    /\ PureIdle
    /\ ProgIdle
    /\ content \in Contents
    /\ cpc = "idle"
    /\ fileOff = 0
    /\ prCrc = 0
    /\ prUploaded = 0
    /\ attemptBytes = <<>>
    /\ fileCrc = 0
    /\ discarded = 0

PutUnchanged ==
    UNCHANGED <<cancelled, apiCalls, batchVars, mpVars, upVars, tokenVars,
                pureVars, progVars, content, outcomes, invocations, delays,
                cancelAt>>

\* The closure starts: file.Seek(0, 0) and a new progressReader.
PutSeek ==
    /\ rpc = "call"
    /\ cpc = "idle"
    /\ fileOff' = 0
    /\ prCrc' = NewAccumulator(prCrc)
    /\ prUploaded' = NewAccumulator(prUploaded)
    /\ attemptBytes' = <<>>
    /\ cpc' = "put"
    /\ UNCHANGED <<rpc, retryI, retryErr, rResult, fileCrc, discarded>>
    /\ PutUnchanged

\* progressReader.Read: the transport reads the next n bytes of the file.
PutRead ==
    /\ rpc = "call"
    /\ cpc = "put"
    /\ \E n \in 1..min(MaxChunk, Len(content) - fileOff) :
         LET p == SubSeq(content, fileOff + 1, fileOff + n)
         IN /\ fileOff' = fileOff + n
            /\ prUploaded' = prUploaded + n
            /\ prCrc' = crcUpdate(prCrc, p)
            /\ attemptBytes' = attemptBytes \o p
    /\ UNCHANGED <<rpc, cpc, retryI, retryErr, rResult, fileCrc, discarded>>
    /\ PutUnchanged

\* client.Do returns and the closure with it: on a status below 400
\* fileCrc = pr.crc and nil; otherwise an error, which leads the driver to
\* the wait or straight to the next iteration.
PutReturns ==
    /\ rpc = "call"
    /\ cpc = "put"
    /\ cpc' = "idle"
    /\ \E ok \in {outcomes[invocations]} \cup (IF cancelled THEN {FALSE} ELSE {}) :
         IF ok
         THEN /\ fileCrc' = prCrc
              /\ rResult' = [kind |-> "nil", attempt |-> 0]
              /\ retryErr' = 0
              /\ rpc' = "done"
              /\ UNCHANGED <<retryI, discarded>>
         ELSE /\ retryErr' = invocations
              /\ discarded' = discarded + Len(attemptBytes)
              /\ IF ShouldWait(retryI)
                 THEN /\ rpc' = "wait"
                      /\ UNCHANGED retryI
                 ELSE /\ rpc' = "loop"
                      /\ retryI' = retryI + 1
              /\ UNCHANGED <<rResult, fileCrc>>
    /\ UNCHANGED <<fileOff, prCrc, prUploaded, attemptBytes>>
    /\ PutUnchanged

NextSingle ==
    \/ RetryLoop
    \/ PutSeek
    \/ PutRead
    \/ PutReturns
    \/ RetryDelayElapsed
    \/ RetryWaitCancelled
    \/ CancelRetry

SpecSingle == InitSingle /\ [][NextSingle]_vars

\* =====================================================================
\* Runs of uploadMultipart, uploadFilesBatch and uploadWithRetry under a
\* fair scheduler, every remote call and every PUT returning
\* =====================================================================
\* Enough parts, and enough files, for the launching loop to find its
\* gate full and have to wait for a slot.
GateParts == concurrentParts + 1
GateFiles == concurrentFiles + 1

InitRuns ==
    \/ InitMP /\ totalParts <= GateParts
    \/ InitBatch /\ nFiles <= GateFiles
    \/ InitRetry

\* The steps of the run itself and of its goroutines.
RunStep ==
    \/ /\ upc = "multipart"
       /\ \/ PartLoop
          \/ GetPartURLs
          \/ LaunchPart
          \/ \E p \in 1..totalParts : PartWorkerStart(p)
          \/ \E p \in 1..totalParts : PartWorkerEnd(p)
          \/ WaitParts
          \/ CompleteMultipart
          \/ ComputeCRC
          \/ DeferredAbort
    \/ /\ upc = "batch"
       /\ \/ CollectMetadata
          \/ CreateCollection
          \/ InitUploadBatch
          \/ TransferLoop
          \/ LaunchFile
          \/ \E i \in 1..nFiles : FileWorkerStart(i)
          \/ \E i \in 1..nFiles : FileWorkerEnd(i)
          \/ WaitFiles
          \/ ConfirmUploadBatch
          \/ MarkCollectionReady
    \/ /\ upc = "retry"
       /\ \/ RetryLoop
          \/ RetryCallReturns
          \/ RetryDelayElapsed
          \/ RetryWaitCancelled

\* The caller cancels ctx, at any moment or never.
RunCancelled ==
    \/ upc = "multipart" /\ CancelMP
    \/ upc = "batch" /\ CancelBatch
    \/ upc = "retry" /\ CancelRetry

NextRuns == RunStep \/ RunCancelled

\* Whatever can run does run in the end: a call in progress returns, a
\* goroutine that can go on is scheduled.  Nothing obliges the caller to
\* cancel.
SpecRuns == InitRuns /\ [][NextRuns]_vars /\ WF_vars(RunStep)

\* =====================================================================
\* progressReader, under uploadSingle and under the parts of uploadMultipart
\* =====================================================================
\* The bytes of a part: only their number matters to the running total.
PartContents == {[i \in 1..n |-> 1] : n \in 1..MaxContent}

\* A progressReader as it is built, over the bytes of its source.
NewReader(owner, src) ==
    [owner |-> owner,           \* "single": uploadSingle, "part": uploadPart
     src |-> src,               \* the bytes pr.reader yields
     hasher |-> owner = "single",   \* pr.hasher != nil
     pos |-> 0,                 \* bytes of the source consumed
     uploaded |-> NewAccumulator(0),
     crc |-> NewAccumulator(0),
     cb |-> FALSE,              \* Read is about to call pr.onProgress
     eof |-> FALSE,             \* a Read returned no bytes
     reads |-> <<>>,            \* n of every Read so far (history)
     calls |-> <<>>]            \* argument of every onProgress call (history)

InitReader ==
    /\ cancelled = FALSE
    /\ apiCalls = <<>>
    /\ asCollection = FALSE
    /\ badPath = 0
    /\ upc = "reader"
    /\ SingleIdle
    /\ BatchIdle
    /\ MPIdle
    /\ RetryIdle
    /\ PutIdle
    /\ TokenIdle
    /\ PureIdle
    /\ uploadedBytes = 0
    /\ \/ \E src \in Contents : readers = <<NewReader("single", src)>>
       \/ \E n \in 1..MaxReaders :
             \E srcs \in [1..n -> PartContents] :
                 readers = [r \in 1..n |-> NewReader("part", srcs[r])]

ReaderUnchanged ==
    UNCHANGED <<cancelled, apiCalls, batchVars, mpVars, retryVars, upVars,
                putVars, tokenVars, pureVars>>

FoldCrcAlways(hasher, crc, p) == crcUpdate(crc, p)

\* if pr.hasher != nil { pr.crc = crc32.Update(pr.crc, pr.hasher, p[:n]) }
FoldCrc(hasher, crc, p) == IF hasher THEN crcUpdate(crc, p) ELSE crc

ObserverCalledAlways(n) == TRUE

\* if n > 0 { ... if pr.onProgress != nil { pr.onProgress(...) } }; both
\* users of progressReader set onProgress.
ObserverCalled(n) == n > 0

\* progressReader.Read up to the call of the observer: the source yields n
\* bytes, none at its end or on an error.
ReaderRead(r) ==
    /\ ~readers[r].cb
    /\ ~readers[r].eof
    /\ \E n \in 0..min(MaxChunk, Len(readers[r].src) - readers[r].pos) :
         LET pr == readers[r]
             p == SubSeq(pr.src, pr.pos + 1, pr.pos + n)
         IN readers' = [readers EXCEPT ![r] =
                [pr EXCEPT !.pos = pr.pos + n,
                           !.uploaded = IF n > 0 THEN pr.uploaded + n
                                        ELSE pr.uploaded,
                           !.crc = IF n > 0 THEN FoldCrc(pr.hasher, pr.crc, p)
                                   ELSE pr.crc,
                           !.cb = ObserverCalled(n),
                           !.eof = n = 0,
                           !.reads = Append(pr.reads, n)]]
    /\ UNCHANGED uploadedBytes
    /\ ReaderUnchanged

\* What uploadPart's observer hands on to the observer of uploadMultipart:
\* onProgress: func(uploaded, _ int64) { onProgress(uploaded) }.
PartObserverArg(uploaded, n) == uploaded

\* pr.onProgress(pr.uploaded, pr.total).  Under uploadSingle it prints;
\* under a part it runs, with uploadedMu held, uploadedBytes += n and the
\* print of the total.
ReaderObserver(r) ==
    /\ readers[r].cb
    /\ readers' = [readers EXCEPT
           ![r].cb = FALSE,
           ![r].calls = Append(readers[r].calls, readers[r].uploaded)]
    /\ uploadedBytes' =
          IF readers[r].owner = "part"
          THEN uploadedBytes +
               PartObserverArg(readers[r].uploaded,
                               readers[r].reads[Len(readers[r].reads)])
          ELSE uploadedBytes
    /\ ReaderUnchanged

NextReader ==
    \/ \E r \in 1..Len(readers) : ReaderRead(r)
    \/ \E r \in 1..Len(readers) : ReaderObserver(r)

SpecReader == InitReader /\ [][NextReader]_vars

\* =====================================================================
\* GetVisitorToken
\* =====================================================================
tokenLength == 16

HexDigits ==
    <<"0", "1", "2", "3", "4", "5", "6", "7",
      "8", "9", "a", "b", "c", "d", "e", "f">>

\* hex.EncodeToString: two characters for every byte.
RECURSIVE EncodeToString(_)
EncodeToString(bytes) ==
    IF bytes = <<>> THEN <<>>
    ELSE <<HexDigits[(Head(bytes) \div 16) + 1],
           HexDigits[(Head(bytes) % 16) + 1]>> \o EncodeToString(Tail(bytes))

\* "cli_" + hex.EncodeToString(bytes)
Token(bytes) == <<"c", "l", "i", "_">> \o EncodeToString(bytes)

\* What rand.Read may fill the tokenLength bytes with.
RandomBytes ==
    {[i \in 1..tokenLength |-> b] : b \in {0, 171}}
        \cup {[i \in 1..tokenLength |-> (i * 37) % 256]}

HasTokenNever(data) == FALSE

\* err == nil && len(data) > 0: the file exists and is not empty.
HasToken(data) == data # <<>>

InitToken ==
    /\ cancelled = FALSE
    /\ apiCalls = <<>>
    /\ asCollection = FALSE
    /\ badPath = 0
    /\ upc = "token"
    /\ SingleIdle
    /\ BatchIdle
    /\ MPIdle
    /\ RetryIdle
    /\ PutIdle
    /\ PureIdle
    /\ ProgIdle
    /\ tokenData \in {<<>>, Token([i \in 1..tokenLength |-> 255]), <<"x">>}
    /\ tokenRet = <<>>
    /\ generated = 0
    /\ written = 0
    /\ touched = FALSE

TokenUnchanged ==
    UNCHANGED <<cancelled, apiCalls, batchVars, mpVars, retryVars, upVars,
                putVars, progVars, pureVars>>

\* One entry of tokenRet.
Returns(token, err, gen, wr, data) ==
    Append(tokenRet,
           [token |-> token, err |-> err, found |-> HasToken(tokenData),
            touched |-> touched, generated |-> gen, written |-> wr,
            stored |-> data])

\* A call that gets past GetConfigDir and finds a token in the file.
GetExistingToken ==
    /\ Len(tokenRet) < MaxCalls
    /\ HasToken(tokenData)
    /\ tokenRet' = Returns(tokenData, FALSE, generated, written, tokenData)
    /\ touched' = FALSE
    /\ UNCHANGED <<tokenData, generated, written>>
    /\ TokenUnchanged

\* A call that finds no token: generateToken, MkdirAll, WriteFile, each of
\* which may fail and end the call with its error.  A failed write leaves
\* no file, an empty one or the beginning of the token.
GetNewToken ==
    /\ Len(tokenRet) < MaxCalls
    /\ ~HasToken(tokenData)
    /\ touched' = FALSE
    /\ \E bytes \in RandomBytes, fail \in {"none", "rand", "mkdir", "write"} :
         LET token == Token(bytes)
         IN CASE fail = "rand" ->
                   /\ generated' = generated + 1
                   /\ tokenRet' = Returns(<<>>, TRUE, generated + 1, written,
                                           tokenData)
                   /\ UNCHANGED <<tokenData, written>>
              [] fail = "mkdir" ->
                   /\ generated' = generated + 1
                   /\ tokenRet' = Returns(<<>>, TRUE, generated + 1, written,
                                           tokenData)
                   /\ UNCHANGED <<tokenData, written>>
              [] fail = "write" ->
                   /\ generated' = generated + 1
                   /\ written' = written + 1
                   /\ \E left \in {<<>>, SubSeq(token, 1, 5)} :
                        /\ tokenData' = left
                        /\ tokenRet' = Returns(<<>>, TRUE, generated + 1,
                                                written + 1, left)
              [] OTHER ->
                   /\ generated' = generated + 1
                   /\ written' = written + 1
                   /\ tokenData' = token
                   /\ tokenRet' = Returns(token, FALSE, generated + 1,
                                           written + 1, token)
    /\ TokenUnchanged

\* GetConfigDir fails (no home directory): the call returns its error.
GetConfigDirFails ==
    /\ Len(tokenRet) < MaxCalls
    /\ tokenRet' = Returns(<<>>, TRUE, generated, written, tokenData)
    /\ touched' = FALSE
    /\ UNCHANGED <<tokenData, generated, written>>
    /\ TokenUnchanged

\* Between two calls someone removes the token file or writes to it.
TouchTokenFile ==
    /\ Len(tokenRet) < MaxCalls
    /\ ~touched
    /\ touched' = TRUE
    /\ tokenData' \in {<<>>, <<"x">>} \ {tokenData}
    /\ UNCHANGED <<tokenRet, generated, written>>
    /\ TokenUnchanged

NextToken ==
    \/ GetExistingToken
    \/ GetNewToken
    \/ GetConfigDirFails
    \/ TouchTokenFile

SpecToken == InitToken /\ [][NextToken]_vars

\* =====================================================================
\* Functions without state: part boundaries, generatePartNumbers
\* =====================================================================
\* offset := int64(partNum-1) * initResp.PartSize
PartOffset(n, psize) == (n - 1) * psize

PartLengthFull(n, psize, fsize, total) == psize

\* partSize := initResp.PartSize, and size - offset for the last part.
PartLength(n, psize, fsize, total) ==
    IF n = total THEN fsize - PartOffset(n, psize) ELSE psize

\* initResp.TotalParts as the service negotiates it for a file of fsize
\* bytes cut into parts of psize bytes; the client does not compute it.
NegotiatedTotalParts(fsize, psize) == (fsize + psize - 1) \div psize

\* The offset and length handed to uploadPart for each part of the loop.
PartAssignments(fsize, psize) ==
    [n \in 1..NegotiatedTotalParts(fsize, psize) |->
        [offset |-> PartOffset(n, psize),
         length |-> PartLength(n, psize, fsize,
                               NegotiatedTotalParts(fsize, psize))]]

\* ---- humanSize
\* A size is an int64, wider than the integers of the checker, so it is
\* written in base 1024: d[1] is the lowest digit, the highest is not 0.
unit == 1024
Int64Digits == 7
SampleDigits == {0, 1, 512, unit - 1}

UnitDigits == <<0, 1>>

\* bytes / unit, n /= unit: integer division drops the lowest digit.
DivUnit(d) == IF Len(d) = 1 THEN <<0>> ELSE Tail(d)

\* a >= b on sizes.
RECURSIVE GreaterEq(_, _)
GreaterEq(a, b) ==
    IF Len(a) # Len(b) THEN Len(a) > Len(b)
    ELSE IF Len(a) = 0 THEN TRUE
    ELSE IF a[Len(a)] # b[Len(a)] THEN a[Len(a)] > b[Len(a)]
    ELSE GreaterEq(SubSeq(a, 1, Len(a) - 1), SubSeq(b, 1, Len(a) - 1))

SizeLoopStrict(n) == GreaterEq(n, UnitDigits) /\ n # UnitDigits

\* The condition of the for statement of humanSize: n >= unit.
SizeLoop(n) == GreaterEq(n, UnitDigits)

\* for n := bytes / unit; n >= unit; n /= unit { div *= unit; exp++ }
RECURSIVE SizeExp(_, _)
SizeExp(n, exp) ==
    IF SizeLoop(n) THEN SizeExp(DivUnit(n), exp + 1) ELSE exp

\* "KMGTPE"[exp] followed by B.
SizeUnits == <<"KB", "MB", "GB", "TB", "PB", "EB">>

\* The unit humanSize prints, and the power of 1024 it divides by (div).
humanSize(bytes) ==
    IF ~GreaterEq(bytes, UnitDigits)
    THEN [unit |-> "B", divExp |-> 0]
    ELSE [unit |-> SizeUnits[SizeExp(DivUnit(bytes), 0) + 1],
          divExp |-> SizeExp(DivUnit(bytes), 0) + 1]

\* The non-negative int64 values whose base-1024 digits are sample digits.
SizeInputs ==
    {d \in UNION {[1..k -> SampleDigits] : k \in 1..Int64Digits} :
        /\ Len(d) > 1 => d[Len(d)] # 0
        /\ Len(d) = Int64Digits => d[Len(d)] < 8}

\* ---- detectContentType
mimeTypes ==
    (".jpg" :> "image/jpeg") @@
    (".jpeg" :> "image/jpeg") @@
    (".png" :> "image/png") @@
    (".gif" :> "image/gif") @@
    (".webp" :> "image/webp") @@
    (".svg" :> "image/svg+xml") @@
    (".pdf" :> "application/pdf") @@
    (".zip" :> "application/zip") @@
    (".tar" :> "application/x-tar") @@
    (".gz" :> "application/gzip") @@
    (".tgz" :> "application/gzip") @@
    (".bz2" :> "application/x-bzip2") @@
    (".xz" :> "application/x-xz") @@
    (".7z" :> "application/x-7z-compressed") @@
    (".rar" :> "application/vnd.rar") @@
    (".mp4" :> "video/mp4") @@
    (".webm" :> "video/webm") @@
    (".mov" :> "video/quicktime") @@
    (".avi" :> "video/x-msvideo") @@
    (".mkv" :> "video/x-matroska") @@
    (".mp3" :> "audio/mpeg") @@
    (".wav" :> "audio/wav") @@
    (".ogg" :> "audio/ogg") @@
    (".flac" :> "audio/flac") @@
    (".txt" :> "text/plain") @@
    (".md" :> "text/markdown") @@
    (".json" :> "application/json") @@
    (".xml" :> "application/xml") @@
    (".html" :> "text/html") @@
    (".css" :> "text/css") @@
    (".js" :> "application/javascript") @@
    (".ts" :> "application/typescript") @@
    (".go" :> "text/x-go") @@
    (".py" :> "text/x-python") @@
    (".rb" :> "text/x-ruby") @@
    (".rs" :> "text/x-rust") @@
    (".c" :> "text/x-c") @@
    (".cpp" :> "text/x-c++") @@
    (".h" :> "text/x-c") @@
    (".hpp" :> "text/x-c++") @@
    (".java" :> "text/x-java") @@
    (".php" :> "text/x-php") @@
    (".sh" :> "application/x-sh") @@
    (".sql" :> "application/sql") @@
    (".yml" :> "application/x-yaml") @@
    (".yaml" :> "application/x-yaml") @@
    (".toml" :> "application/toml")

\* buf := make([]byte, 512)
sniffLen == 512

\* An extension is its lower-case spelling and whether the path spells it
\* in upper case (".JPG"); the empty extension has one spelling.
ToLowerKeep(ext) == ext

\* strings.ToLower
ToLower(ext) == [ext EXCEPT !.upper = FALSE]

\* mime, ok := mimeTypes[ext]: the keys of the table are lower-case.
InTable(ext) == ~ext.upper /\ ext.name \in DOMAIN mimeTypes

\* http.DetectContentType of the n bytes read, by what they begin with.
DetectContentType(n, magic) ==
    IF n = 0 THEN "text/plain; charset=utf-8"
    ELSE CASE magic = "png" -> "image/png"
           [] magic = "text" -> "text/plain; charset=utf-8"
           [] OTHER -> "application/octet-stream"

\* n, _ := file.Read(buf): the bytes a read of at most len bytes gets
\* from position pos of a file of size bytes; it advances the position.
FileRead(size, pos, len) == min(len, size - pos)

\* file.Seek(0, 0)
SeekStart(pos) == 0

\* The result, the bytes read from the file and the file position left,
\* for a file opened at position 0.
detectContentType(ext, size, magic) ==
    IF InTable(ToLower(ext))
    THEN [mime |-> mimeTypes[ToLower(ext).name], bytesRead |-> 0, pos |-> 0]
    ELSE [mime |-> DetectContentType(FileRead(size, 0, sniffLen), magic),
          bytesRead |-> FileRead(size, 0, sniffLen),
          pos |-> SeekStart(0 + FileRead(size, 0, sniffLen))]

Extensions ==
    {e \in [name : DOMAIN mimeTypes \cup {".bin", ""}, upper : BOOLEAN] :
        e.name = "" => ~e.upper}

ContentTypeInputs ==
    [ext : Extensions,
     size : {0, 1, sniffLen - 1, sniffLen, sniffLen + 1},
     magic : {"png", "text", "binary"}]

\* ---- Client.post, from the response on
\* A response body: whether json.Unmarshal accepts it for the error
\* structures, and its error and message fields ("" when absent).
Bodies ==
    {b \in [valid : BOOLEAN,
            error : {"", "limit of 10 uploads reached"},
            message : {"", "file too large"}] :
        ~b.valid => (b.error = "" /\ b.message = "")}

Statuses == {200, 201, 399, 400, 404, 429, 500}

NoError == [text |-> "nil", code |-> 0]

ErrorText(text) == [text |-> text, code |-> 0]

\* fmt.Errorf("server error (HTTP %d)", resp.StatusCode)
ServerError(status) == [text |-> "server error (HTTP %d)", code |-> status]

BodyTextMessageFirst(body) ==
    IF body.message # "" THEN body.message ELSE body.error

\* errResp.Error if non-empty, otherwise errResp.Message.
BodyText(body) ==
    IF body.error # "" THEN body.error ELSE body.message

\* The error post returns for a response, and whether the body was
\* decoded into the caller's result.
PostResponse(status, body) ==
    IF status = 429
    THEN [err |-> IF body.valid /\ body.error # ""
                  THEN ErrorText(body.error)
                  ELSE ErrorText("rate limited - please try again later"),
          decoded |-> FALSE]
    ELSE IF status >= 400
    THEN [err |-> IF body.valid /\ BodyText(body) # ""
                  THEN ErrorText(BodyText(body))
                  ELSE ServerError(status),
          decoded |-> FALSE]
    ELSE IF ~body.valid
    THEN [err |-> ErrorText("failed to parse response"), decoded |-> FALSE]
    ELSE [err |-> NoError, decoded |-> TRUE]

PostInputs == [status : Statuses, body : Bodies]

PartBoundsInputs ==
    [fsize : 1..MaxSize, psize : 1..MaxPartSize]

PartNumbersInputs ==
    {a \in [start : 0..MaxStart, end : 0..(MaxStart + MaxSpan)] :
        a.start <= a.end /\ a.end <= a.start + MaxSpan}

\* A function is about to be applied to arguments of its domain.
InitPure ==
    /\ cancelled = FALSE
    /\ apiCalls = <<>>
    /\ asCollection = FALSE
    /\ badPath = 0
    /\ upc = "pure"
    /\ SingleIdle
    /\ BatchIdle
    /\ MPIdle
    /\ RetryIdle
    /\ PutIdle
    /\ TokenIdle
    /\ ProgIdle
    /\ callRet = <<>>
    /\ \/ callFn = "partBounds" /\ callArgs \in PartBoundsInputs
       \/ callFn = "generatePartNumbers" /\ callArgs \in PartNumbersInputs
       \/ callFn = "humanSize" /\ callArgs \in SizeInputs
       \/ callFn = "detectContentType" /\ callArgs \in ContentTypeInputs
       \/ callFn = "post" /\ callArgs \in PostInputs

PureUnchanged ==
    UNCHANGED <<cancelled, apiCalls, batchVars, mpVars, retryVars, upVars,
                putVars, progVars, tokenVars, callFn, callArgs>>

\* The launching loop of uploadMultipart computes its part boundaries.
ApplyPartBounds ==
    /\ callFn = "partBounds"
    /\ callRet = <<>>
    /\ callRet' = PartAssignments(callArgs.fsize, callArgs.psize)
    /\ PureUnchanged

ApplyGeneratePartNumbers ==
    /\ callFn = "generatePartNumbers"
    /\ callRet = <<>>
    /\ callRet' = [nums |-> generatePartNumbers(callArgs.start, callArgs.end)]
    /\ PureUnchanged

ApplyHumanSize ==
    /\ callFn = "humanSize"
    /\ callRet = <<>>
    /\ callRet' = humanSize(callArgs)
    /\ PureUnchanged

ApplyDetectContentType ==
    /\ callFn = "detectContentType"
    /\ callRet = <<>>
    /\ callRet' = detectContentType(callArgs.ext, callArgs.size,
                                     callArgs.magic)
    /\ PureUnchanged

ApplyPostResponse ==
    /\ callFn = "post"
    /\ callRet = <<>>
    /\ callRet' = PostResponse(callArgs.status, callArgs.body)
    /\ PureUnchanged

NextPure ==
    \/ ApplyPostResponse
    \/ ApplyPartBounds
    \/ ApplyGeneratePartNumbers
    \/ ApplyHumanSize
    \/ ApplyDetectContentType

SpecPure == InitPure /\ [][NextPure]_vars

\* =====================================================================
\* Properties of uploadFilesBatch (checked under SpecBatch)
\* =====================================================================
\* The files named in the confirm-batch requests issued so far.
ConfirmedFiles ==
    {confirmReqs[k][j] : <<k, j>> \in
        {x \in (1..Len(confirmReqs)) \X (1..batchSize) : x[2] <= Len(confirmReqs[x[1]])}}

NegotiationErrors == {i \in 1..nFiles : plan[i] = "error"}

\* The run has returned, exactly one file's negotiation result was an error,
\* every other file was given a usable upload URL and key, no remote call
\* failed, no transfer failed and the context was never cancelled.
C1_Case ==
    /\ pc = "done"
    /\ ~cancelled
    /\ failedCall = "none"
    /\ Cardinality(NegotiationErrors) = 1
    /\ \A i \in 1..nFiles : plan[i] \in {"error", "single"}
    /\ \A i \in 1..nFiles : files[i].uploadErr # "xfer"

\* C1: in a batch run where exactly one file fails negotiation and everything
\* else succeeds, every other file is transferred and sent in a confirm-batch
\* request, markCollectionReady is called, the run returns a collection result
\* and the failure count is exactly 1.
C1_OneNegotiationFailure ==
    C1_Case =>
        /\ \A i \in (1..nFiles) \ NegotiationErrors :
              i \in putOK /\ i \in ConfirmedFiles
        /\ readyCalled
        /\ result = "collection"
        /\ errorCount = 1

\* A run of three files (two init-batch pages) in the case of C1.
C1_Witness == C1_Case /\ nFiles >= 3 /\ Cardinality(putOK) = nFiles - 1

\* C2: every file placed in a confirm-batch request received a usable upload
\* plan from negotiation and completed its PUT successfully.
C2_ConfirmOnlyTransferred ==
    \A i \in ConfirmedFiles : plan[i] = "single" /\ i \in putOK

TransferDrained ==
    \/ pc \in {"confirm", "ready"}
    \/ pc = "done" /\ (readyCalled \/ confirmReqs # <<>>)

\* Every file that negotiation gave an upload URL has been launched and has
\* finished, whatever its siblings did.
C4_AllLaunched ==
    (TransferDrained /\ ~cancelled) =>
        \A i \in 1..nFiles : plan[i] = "single" => wstate[i] = "done"

\* A step in which file i's transfer ends in failure changes nothing but
\* that file's record and the failure count.
C4_OnlyOwnRecord ==
    \A i \in 1..nFiles :
        (wstate[i] # "done" /\ wstate'[i] = "done" /\ files'[i].uploadErr = "xfer") =>
            /\ \A j \in (1..nFiles) \ {i} :
                  files'[j] = files[j] /\ wstate'[j] = wstate[j]
            /\ cancelled' = cancelled
            /\ fi' = fi
            /\ pc' = pc
            /\ errorCount' = errorCount + 1

\* C4: a file whose transfer fails marks only its own record as failed; no
\* sibling is cancelled or skipped because of it, and every other file with a
\* usable upload URL is still launched.
C4_FailureIsolated == []C4_AllLaunched /\ [][C4_OnlyOwnRecord]_vars

\* A drained, uncancelled run in which one transfer failed and a sibling
\* launched after that failure still completed.
C4_Witness ==
    /\ TransferDrained
    /\ ~cancelled
    /\ nFiles >= 3
    /\ files[1].uploadErr = "xfer"
    /\ {2, 3} \subseteq putOK

\* =====================================================================
\* Properties of uploadMultipart (checked under SpecMP)
\* =====================================================================
\* C5: completeMultipart is called only with the part numbers 1..totalParts,
\* each once; with a part number missing from the collected parts the
\* operation returns a failure and has not called completeMultipart.
C5_CompleteOnlyWhenAllParts ==
    /\ completeCalled =>
          Len(completeReq) = totalParts /\ Range(completeReq) = 1..totalParts
    /\ (mpc = "done" /\ Range(parts) # 1..totalParts) =>
          ~completeCalled /\ mpResult.kind \notin {"ok", "none"}

\* completeMultipart was called for a transfer of several parts, some of
\* them fetched by getPartURLs.
C5_Witness ==
    /\ completeCalled
    /\ totalParts >= 3
    /\ mpResult.kind = "ok"
    /\ mpc = "done"

\* A transfer that ended with a part missing.
C5_WitnessMissing ==
    /\ mpc = "done"
    /\ totalParts >= 3
    /\ Range(parts) # 1..totalParts
    /\ Len(parts) >= 1

\* C6: the completion tokens passed to completeMultipart are in strictly
\* increasing part-number order.
C6_CompleteSorted ==
    completeCalled =>
        \A j, k \in 1..Len(completeReq) : j < k => completeReq[j] < completeReq[k]

\* C7: once a part's failure has been recorded (and the context is not
\* cancelled), no further part transfer is launched.
C7_NoLaunchAfterFailure ==
    [][(uploadErr # 0 /\ ~cancelled) =>
          \A p \in 1..totalParts :
              pstate'[p] = "launched" => pstate[p] = "launched"]_vars

\* uploadMultipart has computed its return value.
Returning == mpc \in {"defer", "done"}

C9_DrainedOnReturn == Returning => InFlightParts = {}

\* C10 as stated: whenever uploadMultipart ends without success after a
\* session was opened (cancelled, part failure, URL fetch failure,
\* completeMultipart failure), an abort call is issued.
C10_AbortOnEveryFailure ==
    (mpc = "done" /\ hasUploadID
        /\ mpResult.kind \in {"cancelled", "partfail", "urlfail", "completefail"})
    => abortCalled

\* The deferred cleanup leaves the return value as it is.
C10_ResultKept == (mpc = "defer") => (mpResult' = mpResult)

\* C10 as amended: when uploadMultipart ends without success, an abort call
\* is issued exactly when a session was opened and the caller's context is
\* cancelled by then; a failure with the context still live issues no abort.
\* The abort never changes the returned error.
C10_AbortOnlyWhenCancelled ==
    /\ [](mpc = "done" /\ mpResult.kind # "ok" =>
            (abortCalled <=> (cancelled /\ hasUploadID)))
    /\ [][C10_ResultKept]_vars

\* A cancelled transfer with an open session that ended with an abort call.
C10_Witness ==
    /\ mpc = "done"
    /\ hasUploadID
    /\ cancelled
    /\ mpResult.kind = "cancelled"
    /\ abortCalled
    /\ Len(parts) >= 1

\* C11: within one uploadMultipart run, the part workers that were launched
\* and have not finished (the part transfers in flight) never number more
\* than concurrentParts, the capacity of the part gate.
C11_PartsInFlightBounded == Cardinality(InFlightParts) <= concurrentParts

\* The gate is full and the loop is held at it with a further part to launch.
C11_Witness ==
    /\ Cardinality(InFlightParts) = concurrentParts
    /\ mpc = "acquire"
    /\ partNum <= totalParts

PutsInFlight == {i \in 1..nFiles : wstate[i] = "putting"}

\* C12: within one batch run the whole-file transfers in flight never number
\* more than concurrentFiles, and neither do the PUT requests outstanding at
\* one time: a file worker issues one PUT at a time.
C12_FilesInFlightBounded ==
    /\ Cardinality(InFlightFiles) <= concurrentFiles
    /\ Cardinality(PutsInFlight) <= concurrentFiles

\* The gate is full of workers that are all in their PUT, and the loop is
\* held at it with a further file to launch.
C12_Witness ==
    /\ Cardinality(PutsInFlight) = concurrentFiles
    /\ pc = "acquire"
    /\ fi <= nFiles

\* C16: when uploadMultipart's wait for its part workers ends with the
\* context cancelled, it returns the cancelled outcome, not a recorded part
\* failure, and completeMultipart has not been and is not called.
C16_CancelledAfterDrain ==
    [][(mpc = "wait" /\ mpc' # "wait" /\ cancelled)
         => /\ mpResult' = Returned("cancelled", 0)
            /\ ~completeCalled'
            /\ mpc' = "defer"]_vars

\* A part failure was recorded, every launched worker has finished, and the
\* run returned the cancelled outcome.
C16_Witness ==
    /\ mpc = "done"
    /\ mpResult = Returned("cancelled", 0)
    /\ uploadErr # 0
    /\ InFlightParts = {}
    /\ \E p \in 1..totalParts : pstate[p] = "ok"

NoSuccess == \A n \in 1..maxRetries : ~outcomes[n]

FirstSuccess == CHOOSE n \in 1..maxRetries :
                    outcomes[n] /\ \A m \in 1..(n - 1) : ~outcomes[m]

\* C13: with no cancellation, when fn fails on its first k invocations and
\* then succeeds (k in 0..2), uploadWithRetry returns nil after exactly k+1
\* invocations and exactly k delays, and fn is never invoked past its
\* first success.
C13_SuccessAfterKFailures ==
    (~cancelled /\ ~NoSuccess) =>
        /\ invocations <= FirstSuccess
        /\ delays <= FirstSuccess - 1
        /\ rpc = "done" =>
              /\ rResult = [kind |-> "nil", attempt |-> 0]
              /\ invocations = FirstSuccess
              /\ delays = FirstSuccess - 1

\* fn failed twice, then succeeded, and the driver returned.
C13_Witness ==
    /\ rpc = "done"
    /\ ~cancelled
    /\ outcomes = <<FALSE, FALSE, TRUE>>
    /\ invocations = 3
    /\ delays = 2

\* C14: with no cancellation, when fn always fails, uploadWithRetry invokes
\* it exactly maxRetries times, waits exactly maxRetries - 1 times (not after
\* the last attempt) and returns the last attempt's own error.
C14_ExhaustedReturnsLastError ==
    (~cancelled /\ NoSuccess) =>
        /\ invocations <= maxRetries
        /\ delays <= maxRetries - 1
        /\ rpc = "done" =>
              /\ rResult = [kind |-> "op", attempt |-> maxRetries]
              /\ invocations = maxRetries
              /\ delays = maxRetries - 1

\* fn failed at every attempt and the driver returned.
C14_Witness ==
    /\ rpc = "done"
    /\ ~cancelled
    /\ NoSuccess
    /\ invocations = maxRetries
    /\ rResult.kind = "op"

\* C15: when ctx is cancelled before an attempt starts or during the wait
\* between two attempts, fn is not invoked after that and uploadWithRetry
\* returns the context's error, not fn's; cancelled before the first
\* attempt, fn is never invoked.
C15_CancelStopsRetries ==
    cancelAt.phase \in {"before", "wait"} =>
        /\ invocations = cancelAt.inv
        /\ rpc # "call"
        /\ rpc = "done" => rResult = [kind |-> "ctx", attempt |-> 0]

\* Cancelled during the second wait, after two failed attempts.
C15_Witness ==
    /\ rpc = "done"
    /\ cancelAt = [phase |-> "wait", inv |-> 2]
    /\ delays = 1
    /\ rResult.kind = "ctx"

\* Cancelled before the first attempt.
C15_WitnessBeforeFirst ==
    /\ rpc = "done"
    /\ cancelAt = [phase |-> "before", inv |-> 0]
    /\ invocations = 0
    /\ rResult.kind = "ctx"

\* C19: when some path of a batch cannot be opened or stat'd, whatever its
\* position, the run ends with an error right after the metadata pass, and
\* no remote call (createCollection, initBatch, PUT, confirmBatch,
\* markCollectionReady) is made in that run.
C19_BadPathNoRemoteCall ==
    (pc # "idle" /\ badPath # 0) =>
        /\ pc \in {"stat", "done"}
        /\ apiCalls = <<>>
        /\ \A i \in 1..nFiles : wstate[i] = "idle"
        /\ putOK = {}
        /\ confirmReqs = <<>>
        /\ ~created /\ ~readyCalled
        /\ pc = "done" => result = "error"

\* The last of several paths is the bad one, and the run has returned.
C19_Witness ==
    /\ nFiles >= 2
    /\ badPath = nFiles
    /\ pc = "done"
    /\ result = "error"
    /\ apiCalls = <<>>

\* C20: in a batch run, a file for which init-batch selected multipart is
\* transferred through the multipart path like any other negotiated file:
\* once the transfers of an uncancelled run have drained, its worker has
\* run and it is not counted failed for lacking a single-shot URL.
C20_MultipartTransferredInBatch ==
    (TransferDrained /\ ~cancelled) =>
        \A i \in 1..nFiles :
            plan[i] = "multipart" => wstate[i] = "done"

\* Number of calls of one api.Client method made so far.
CallCount(name) == Cardinality({k \in 1..Len(apiCalls) : apiCalls[k] = name})

\* C17: UploadFiles picks its strategy from the number of paths and the
\* collection flag alone.  Zero paths: an error and no remote call.  One
\* path, collection not forced: the single-file path, no createCollection,
\* and any result is a file result with IsCollection false.  Every other
\* input: the batch orchestrator and never the single-file path; it calls
\* createCollection at most once, and any result it returns has
\* IsCollection true and exactly one collection behind it.
C17_StrategyFromInputs ==
    upc # "start" =>
        /\ nFiles = 0 =>
              /\ upc = "done" /\ upResult = "error"
              /\ apiCalls = <<>>
              /\ pc = "idle" /\ mpc = "idle"
        /\ (nFiles = 1 /\ ~asCollection) =>
              /\ upc # "batch" /\ pc = "idle"
              /\ CallCount("createCollection") = 0
              /\ upResult \in {"none", "error", "file"}
              /\ ~IsCollection(upResult)
        /\ (nFiles >= 2 \/ (nFiles = 1 /\ asCollection)) =>
              /\ upc \in {"batch", "done"} /\ pc # "idle"
              /\ sfType = "none" /\ mpc = "idle"
              /\ CallCount("initUpload") = 0 /\ CallCount("confirmUpload") = 0
              /\ CallCount("createCollection") <= 1
              /\ upResult \in {"none", "error", "collection"}
              /\ upResult = "collection" =>
                    /\ IsCollection(upResult)
                    /\ created
                    /\ CallCount("createCollection") = 1

\* One path with the collection forced went through the batch and came
\* back as a collection.
C17_Witness ==
    /\ nFiles = 1
    /\ asCollection
    /\ upc = "done"
    /\ upResult = "collection"
    /\ CallCount("createCollection") = 1

\* One path, collection not forced, came back as a file.
C17_WitnessSingle ==
    /\ nFiles = 1
    /\ ~asCollection
    /\ upc = "done"
    /\ upResult = "file"

\* Number of confirm-batch entries, over all pages sent, that carry the
\* storage key of file i.
ConfirmEntries(i) ==
    Cardinality({x \in (1..Len(confirmReqs)) \X (1..Len(toConfirm)) :
                    /\ x[2] <= Len(confirmReqs[x[1]])
                    /\ confirmReqs[x[1]][x[2]] = i})

\* No storage key is sent in more than one confirm call or entry.
KeySentAtMostOnce ==
    /\ \A i \in 1..nFiles : ConfirmEntries(i) <= 1
    /\ CallCount("confirmUpload") <= 1

RECURSIVE Flatten(_)
Flatten(pages) ==
    IF pages = <<>> THEN <<>> ELSE Head(pages) \o Flatten(Tail(pages))

\* Negotiation has gone through all its pages.
NegotiationDone ==
    pc \in {"loop", "acquire", "wait", "confirm", "ready"}
        \/ (pc = "done" /\ failedCall \in {"none", "confirm", "ready"} /\ created)

\* C30: the init-batch pages are consecutive slices of the file list in
\* submission order, each of 1 to batchSize files; once negotiation is
\* through, every file is in exactly one page; and what the response of a
\* page holds for index i is stored on the i-th file of that page and on
\* no other file.
C30_InitPagesPartition ==
    /\ \A q \in 1..Len(initReqs) :
          Len(initReqs[q]) \in 1..batchSize
    /\ Len(Flatten(initReqs)) <= nFiles
    /\ \A k \in 1..Len(Flatten(initReqs)) : Flatten(initReqs)[k] = k
    /\ NegotiationDone => Len(Flatten(initReqs)) = nFiles
    /\ \A i \in 1..nFiles :
          /\ i \notin Range(Flatten(initReqs)) =>
                plan[i] = "none" /\ files[i] = NoFile
          /\ files[i].uploadURL = StoreResult(NoFile, plan[i]).uploadURL
          /\ files[i].r2Key = StoreResult(NoFile, plan[i]).r2Key
          /\ (files[i].uploadErr = "nego") <=> (plan[i] = "error")

\* Two pages were sent and index 0 of each received a different result,
\* the second page being shorter than the first.
C30_Witness ==
    /\ pc = "loop"
    /\ Len(initReqs) = 2
    /\ Len(initReqs[2]) < Len(initReqs[1])
    /\ plan[1] = "error"
    /\ plan[batchSize + 1] = "single"
    /\ files[batchSize + 1].uploadURL # ""

\* Rank of a call in the order of the batch phases.
PhaseRank(name) ==
    CASE name = "createCollection"    -> 1
      [] name = "initBatch"           -> 2
      [] name = "confirmBatch"        -> 3
      [] name = "markCollectionReady" -> 4
      [] OTHER                        -> 0

\* C28: a batch run goes through its phases in order: createCollection has
\* succeeded before the first initBatch call, every initBatch page is done
\* before the first file transfer starts, every file transfer has finished
\* before the first confirmBatch call, and every confirmBatch page is done
\* before markCollectionReady is called.
C28_PhasesInOrder ==
    /\ \A j, k \in 1..Len(apiCalls) :
          j < k => PhaseRank(apiCalls[j]) <= PhaseRank(apiCalls[k])
    /\ \A k \in 1..Len(apiCalls) : PhaseRank(apiCalls[k]) # 0
    /\ CallCount("createCollection") <= 1
    /\ CallCount("initBatch") > 0 => created
    /\ (\E i \in 1..nFiles : wstate[i] # "idle") =>
          /\ Len(Flatten(initReqs)) = nFiles
          /\ failedCall # "init"
    /\ pc = "init" => \A i \in 1..nFiles : wstate[i] = "idle"
    /\ CallCount("confirmBatch") > 0 =>
          \A i \in 1..nFiles : wstate[i] \in {"idle", "done"}
    /\ pc \in {"confirm", "ready"} =>
          \A i \in 1..nFiles : wstate[i] \in {"idle", "done"}
    /\ readyCalled =>
          /\ Flatten(confirmReqs) = toConfirm
          /\ failedCall # "confirm"
          /\ CallCount("markCollectionReady") = 1

\* A run with two pages of negotiation, transfers, two pages of
\* confirmation and the final call.
C28_Witness ==
    /\ pc = "done"
    /\ result = "collection"
    /\ apiCalls = <<"createCollection", "initBatch", "initBatch",
                    "confirmBatch", "confirmBatch", "markCollectionReady">>
    /\ Cardinality(putOK) > batchSize

\* Rank of a call in the order of a single-file upload.
SingleRank(name) ==
    CASE name = "initUpload"        -> 1
      [] name = "getPartURLs"       -> 2
      [] name = "completeMultipart" -> 3
      [] name = "abortUpload"       -> 4
      [] name = "confirmUpload"     -> 5
      [] OTHER                      -> 0

\* Some PUT of the single-file path has been issued or is about to be.
SinglePutStarted ==
    \/ upc \in {"sf_put", "sf_multipart", "sf_confirm"}
    \/ sfPutOK
    \/ mpc # "idle"

\* C29: in a single-file upload the remote calls come in the order init,
\* transfer (one PUT, or the part PUTs and then completeMultipart), confirm;
\* a failed negotiation ends the operation with no PUT; and confirm is
\* called only after the transfer step returned success, never after a
\* failed or cancelled transfer.
C29_SingleFileOrder ==
    Strategy(nFiles, asCollection) = "single" =>
        /\ \A j, k \in 1..Len(apiCalls) :
              j < k => SingleRank(apiCalls[j]) <= SingleRank(apiCalls[k])
        /\ \A k \in 1..Len(apiCalls) : SingleRank(apiCalls[k]) # 0
        /\ CallCount("initUpload") <= 1
        /\ SinglePutStarted =>
              /\ CallCount("initUpload") = 1
              /\ sfType # "none"
        /\ (upc = "done" /\ sfType = "none") =>
              /\ upResult = "error"
              /\ ~SinglePutStarted
              /\ CallCount("confirmUpload") = 0
        /\ completeCalled => \A p \in 1..totalParts : pstate[p] = "ok"
        /\ CallCount("confirmUpload") > 0 =>
              /\ sfPutOK
              /\ sfType = "multipart" =>
                    /\ mpResult = Returned("ok", 0)
                    /\ completeCalled
                    /\ InFlightParts = {}
        /\ (sfType = "multipart" /\ mpc = "done" /\ mpResult.kind # "ok") =>
              CallCount("confirmUpload") = 0
        /\ (upc = "done" /\ ~sfPutOK) => CallCount("confirmUpload") = 0

\* A multipart single-file upload that fetched part URLs, finalized and
\* was confirmed.
C29_Witness ==
    /\ upc = "done"
    /\ upResult = "file"
    /\ sfType = "multipart"
    /\ totalParts >= 2
    /\ apiCalls = <<"initUpload", "getPartURLs", "completeMultipart",
                    "confirmUpload">>

\* The multipart transfer failed and the operation returned without confirm.
C29_WitnessFailed ==
    /\ upc = "done"
    /\ sfType = "multipart"
    /\ mpResult.kind = "partfail"
    /\ upResult = "error"

RECURSIVE SumLengths(_)
SumLengths(a) == IF a = <<>> THEN 0 ELSE Head(a).length + SumLengths(Tail(a))

C26_PartNumbersContiguous ==
    (callFn = "generatePartNumbers" /\ callRet # <<>>) =>
        LET nums == callRet.nums
        IN /\ Len(nums) = callArgs.end - callArgs.start + 1
           /\ \A k \in 1..Len(nums) : nums[k] = callArgs.start + k - 1
           /\ nums[1] = callArgs.start
           /\ nums[Len(nums)] = callArgs.end
           /\ \A j, k \in 1..Len(nums) : j # k => nums[j] # nums[k]

\* generatePartNumbers(10, 15) returned its six values.
C26_Witness ==
    /\ callFn = "generatePartNumbers"
    /\ callArgs = [start |-> 10, end |-> 15]
    /\ callRet # <<>>
    /\ callRet.nums = <<10, 11, 12, 13, 14, 15>>

\* 1024^e as a size.
PowerOfUnit(e) == [k \in 1..(e + 1) |-> IF k = e + 1 THEN 1 ELSE 0]

\* C27: humanSize prints a size below 1024 with unit B, and a size
\* n >= 1024 with the unit K, M, G, T, P or E whose power of 1024 is the
\* largest one not exceeding n; 1023 is in B, 1024 and 1536 in KB, 1048576
\* in MB, 1073741824 in GB, 1099511627776 in TB.
C27_BinaryPrefix ==
    (callFn = "humanSize" /\ callRet # <<>>) =>
        /\ ~GreaterEq(callArgs, PowerOfUnit(1)) => callRet.unit = "B"
        /\ GreaterEq(callArgs, PowerOfUnit(1)) =>
              \E e \in 1..6 :
                  /\ callRet.unit = SizeUnits[e]
                  /\ callRet.divExp = e
                  /\ GreaterEq(callArgs, PowerOfUnit(e))
                  /\ ~GreaterEq(callArgs, PowerOfUnit(e + 1))
        /\ callArgs = <<unit - 1>> => callRet.unit = "B"
        /\ callArgs = <<0, 1>> => callRet.unit = "KB"
        /\ callArgs = <<512, 1>> => callRet.unit = "KB"
        /\ callArgs = <<0, 0, 1>> => callRet.unit = "MB"
        /\ callArgs = <<0, 0, 0, 1>> => callRet.unit = "GB"
        /\ callArgs = <<0, 0, 0, 0, 1>> => callRet.unit = "TB"

\* humanSize(1099511627776) printed in TB.
C27_Witness ==
    /\ callFn = "humanSize"
    /\ callArgs = <<0, 0, 0, 0, 1>>
    /\ callRet # <<>>
    /\ callRet.unit = "TB"

\* C25: detectContentType returns the table MIME type for a path whose
\* extension, compared without regard to case, is in the static table,
\* whatever the file holds and without reading the file; only for a path
\* with no recognized extension does it sniff the first 512 bytes, and it
\* then leaves the file position at the start.
C25_ExtensionBeforeContent ==
    (callFn = "detectContentType" /\ callRet # <<>>) =>
        IF callArgs.ext.name \in DOMAIN mimeTypes
        THEN /\ callRet.mime = mimeTypes[callArgs.ext.name]
             /\ callRet.bytesRead = 0
        ELSE /\ callRet.bytesRead = min(512, callArgs.size)
             /\ callRet.mime =
                    DetectContentType(callRet.bytesRead, callArgs.magic)
             /\ callRet.pos = 0

\* A path ending in .JPG whose file begins like a PNG image.
C25_Witness ==
    /\ callFn = "detectContentType"
    /\ callArgs.ext = [name |-> ".jpg", upper |-> TRUE]
    /\ callArgs.magic = "png"
    /\ callArgs.size = 513
    /\ callRet # <<>>
    /\ callRet.mime = "image/jpeg"

\* A path without a recognized extension, sniffed and rewound.
C25_WitnessSniffed ==
    /\ callFn = "detectContentType"
    /\ callArgs.ext.name = ".bin"
    /\ callArgs.size = 513
    /\ callRet # <<>>
    /\ callRet.bytesRead = 512
    /\ callRet.pos = 0

PostReturned == callFn = "post" /\ callRet # <<>>

\* C24 as stated: for an API response with status 429 the client returns
\* the rate-limit error text carried by the response body rather than a
\* generic message; for any other status >= 400 it returns the body's error
\* field if non-empty, otherwise its message field if non-empty, otherwise
\* the generic server-error message carrying the status code; in none of
\* these cases is the body decoded into the caller's result.
C24_RateLimitTextAlwaysFromBody ==
    PostReturned =>
        /\ callArgs.status = 429 =>
              /\ callRet.err.text = callArgs.body.error
              /\ ~callRet.decoded
        /\ (callArgs.status >= 400 /\ callArgs.status # 429) =>
              /\ callRet.err =
                    IF callArgs.body.error # ""
                    THEN ErrorText(callArgs.body.error)
                    ELSE IF callArgs.body.message # ""
                    THEN ErrorText(callArgs.body.message)
                    ELSE ServerError(callArgs.status)
              /\ ~callRet.decoded

\* C24, amended: for status 429 the client returns the body's error field
\* when the body parses and the field is non-empty, and the generic
\* rate-limit message otherwise; for any other status >= 400 it returns the
\* body's error field if non-empty, otherwise its message field if
\* non-empty, otherwise the generic server-error message carrying the
\* status code; in none of these cases is the body decoded into the
\* caller's result.
C24_ErrorTextOrGeneric ==
    PostReturned =>
        /\ callArgs.status = 429 =>
              /\ callRet.err.text =
                    IF callArgs.body.error # ""
                    THEN callArgs.body.error
                    ELSE "rate limited - please try again later"
              /\ callRet.err.text # callArgs.body.message
              /\ ~callRet.decoded
        /\ (callArgs.status >= 400 /\ callArgs.status # 429) =>
              /\ callRet.err =
                    IF callArgs.body.error # ""
                    THEN ErrorText(callArgs.body.error)
                    ELSE IF callArgs.body.message # ""
                    THEN ErrorText(callArgs.body.message)
                    ELSE ServerError(callArgs.status)
              /\ ~callRet.decoded

\* A 429 response whose body has no error text got the generic message,
\* although the body has a message field.
C24_Witness ==
    /\ PostReturned
    /\ callArgs.status = 429
    /\ callArgs.body.valid
    /\ callArgs.body.error = ""
    /\ callArgs.body.message # ""
    /\ callRet.err.text = "rate limited - please try again later"

\* C22: every attempt of uploadSingle reads the file again from offset 0
\* with a fresh checksum accumulator, so when uploadSingle succeeds on
\* attempt k (k in 1..3) the CRC-32 it returns is the checksum of the bytes
\* read during attempt k alone; bytes read during failed attempts
\* contribute nothing to it and nothing is resumed.
C22_CrcOfLastAttemptOnly ==
    /\ cpc = "put" =>
          /\ attemptBytes = SubSeq(content, 1, fileOff)
          /\ prUploaded = Len(attemptBytes)
          /\ prCrc = crcUpdate(0, attemptBytes)
    /\ (upc = "put" /\ rResult.kind = "nil") =>
          /\ invocations \in 1..3
          /\ fileCrc = crcUpdate(0, attemptBytes)
          /\ attemptBytes = SubSeq(content, 1, Len(attemptBytes))

\* Success on the third attempt, after failed attempts that read bytes.
C22_Witness ==
    /\ upc = "put"
    /\ rResult.kind = "nil"
    /\ invocations = 3
    /\ discarded > 0
    /\ attemptBytes = content
    /\ Len(content) = 2
    /\ fileCrc = crcUpdate(0, content)

\* The file was left alone between the return of call i and call j.
Untouched(i, j) == \A k \in (i + 1)..j : ~tokenRet[k].touched

\* C23: a GetVisitorToken call that finds no token file generates a token
\* of 36 characters beginning with cli_ and persists it; any later call,
\* with the file untouched in between, returns the identical value and
\* does not generate or write a new token.
C23_TokenPersists ==
    \A i \in 1..Len(tokenRet) :
        (~tokenRet[i].found /\ ~tokenRet[i].err) =>
            /\ Len(tokenRet[i].token) = 36
            /\ SubSeq(tokenRet[i].token, 1, 4) = <<"c", "l", "i", "_">>
            /\ tokenRet[i].stored = tokenRet[i].token
            /\ \A j \in (i + 1)..Len(tokenRet) :
                  (Untouched(i, j) /\ ~tokenRet[j].err) =>
                      /\ tokenRet[j].token = tokenRet[i].token
                      /\ tokenRet[j].found
                      /\ tokenRet[j].generated = tokenRet[i].generated
                      /\ tokenRet[j].written = tokenRet[i].written

\* A first call generated and stored a token, and two later calls with the
\* file untouched returned it.
C23_Witness ==
    /\ Len(tokenRet) = 3
    /\ ~tokenRet[1].found
    /\ ~tokenRet[1].err
    /\ Len(tokenRet[1].token) = 36
    /\ Untouched(1, 3)
    /\ ~tokenRet[2].err
    /\ ~tokenRet[3].err
    /\ tokenRet[3].token = tokenRet[1].token
    /\ generated = 1
    /\ written = 1

\* Confirmation has gone through all its pages.
ConfirmationDone == pc = "ready" \/ readyCalled

\* C31: the confirmBatch pages are consecutive slices of the list of files
\* to confirm, which is in submission order whatever order the transfers
\* completed in; each page has 1 to batchSize entries, never none; once
\* confirmation is through every file to confirm is in exactly one page.
C31_ConfirmPagesPartition ==
    /\ \A q \in 1..Len(confirmReqs) : Len(confirmReqs[q]) \in 1..batchSize
    /\ \A j, k \in 1..Len(toConfirm) : j < k => toConfirm[j] < toConfirm[k]
    /\ Len(Flatten(confirmReqs)) <= Len(toConfirm)
    /\ Flatten(confirmReqs) = SubSeq(toConfirm, 1, Len(Flatten(confirmReqs)))
    /\ \A q \in 1..(Len(confirmReqs) - 1) : Len(confirmReqs[q]) = batchSize
    /\ ConfirmationDone =>
          /\ Flatten(confirmReqs) = toConfirm
          /\ \A i \in Range(toConfirm) : ConfirmEntries(i) = 1
          /\ toConfirm = <<>> => CallCount("confirmBatch") = 0

\* Two pages were sent, a full one and a shorter one, and with them every
\* file to confirm.
C31_Witness ==
    /\ pc = "ready"
    /\ Len(confirmReqs) = 2
    /\ Len(confirmReqs[1]) = batchSize
    /\ Len(confirmReqs[2]) < batchSize
    /\ Flatten(confirmReqs) = toConfirm

\* No file was to be confirmed and no confirmBatch call was made.
C31_WitnessNone ==
    /\ readyCalled
    /\ toConfirm = <<>>
    /\ uploadedCount = 0
    /\ CallCount("confirmBatch") = 0

\* C32: getPartURLs is called only when the next part to launch has no
\* known URL; each request asks for the contiguous part numbers from that
\* part p up to min(p + partURLBatchSize - 1, totalParts), at most
\* partURLBatchSize numbers and none above totalParts; the URLs returned
\* are merged into the known set before part p is launched, so no part is
\* launched before a URL lookup for it has been made.
C32_PartURLsFetchedOnDemand ==
    /\ mpc = "geturl" => partNum \notin knownURLs
    /\ Len(urlReqs) = CallCount("getPartURLs")
    /\ \A q \in 1..Len(urlReqs) :
          LET nums == urlReqs[q].numbers
              p == urlReqs[q].part
          IN /\ Len(nums) \in 1..partURLBatchSize
             /\ \A k \in 1..Len(nums) : nums[k] = p + k - 1
             /\ \A k \in 1..Len(nums) : nums[k] <= totalParts
             /\ nums[Len(nums)] = min(p + partURLBatchSize - 1, totalParts)
             /\ (q < Len(urlReqs) \/ mpc \in {"check", "acquire", "wait"}) =>
                   Range(nums) \subseteq knownURLs
    /\ mpc = "acquire" => partNum \in knownURLs
    /\ \A p \in 1..totalParts : pstate[p] # "idle" => p \in knownURLs

\* Two requests were needed, the second cut short by totalParts, and the
\* last part was launched after it.
C32_Witness ==
    /\ Len(urlReqs) = 2
    /\ Len(urlReqs[1].numbers) = partURLBatchSize
    /\ Len(urlReqs[2].numbers) < partURLBatchSize
    /\ urlReqs[2].numbers[Len(urlReqs[2].numbers)] = totalParts
    /\ pstate[totalParts] # "idle"

RECURSIVE SumSeq(_)
SumSeq(q) == IF q = <<>> THEN 0 ELSE Head(q) + SumSeq(Tail(q))

\* The reads of q that yielded bytes, in order.
RECURSIVE Positive(_)
Positive(q) ==
    IF q = <<>> THEN <<>>
    ELSE (IF Head(q) > 0 THEN <<Head(q)>> ELSE <<>>) \o Positive(Tail(q))

\* The part readers of a multipart transfer are at work.
PartReaders == readers # <<>> /\ readers[1].owner = "part"

\* C33: during a multipart transfer the running total reported to
\* progress equals, whenever no observer call is under way, the sum over
\* the parts of the bytes read so far from each part's stream, under every
\* interleaving of the part workers; with no retried part it never exceeds
\* the file size and equals it when all parts are done.
C33_TotalIsSumOfPartBytes ==
    PartReaders =>
        /\ (\A r \in 1..Len(readers) : ~readers[r].cb) =>
              uploadedBytes =
                  SumSeq([r \in 1..Len(readers) |-> readers[r].uploaded])
        /\ uploadedBytes <=
              SumSeq([r \in 1..Len(readers) |-> Len(readers[r].src)])
        /\ (\A r \in 1..Len(readers) :
                ~readers[r].cb /\ readers[r].pos = Len(readers[r].src)) =>
              uploadedBytes =
                  SumSeq([r \in 1..Len(readers) |-> Len(readers[r].src)])

\* C34: for every progressReader, each read that yields n > 0 bytes adds n
\* to the uploaded counter, folds those n bytes into the CRC when a hasher
\* is set and leaves the CRC untouched when none is, and calls the
\* observer once with the new cumulative count; a read that yields no
\* bytes changes neither counter nor CRC and calls no observer; the
\* counter never decreases and after a full read equals the number of
\* bytes of the source.
C34_ReadCountsFoldsNotifies ==
    \A r \in 1..Len(readers) :
        LET pr == readers[r]
            pos == Positive(pr.reads)
            done == Len(pr.calls)
        IN /\ pr.uploaded = SumSeq(pr.reads)
           /\ pr.uploaded = pr.pos
           /\ pr.crc = IF pr.hasher
                       THEN crcUpdate(0, SubSeq(pr.src, 1, pr.uploaded))
                       ELSE 0
           /\ done + (IF pr.cb THEN 1 ELSE 0) = Len(pos)
           /\ \A k \in 1..done : pr.calls[k] = SumSeq(SubSeq(pos, 1, k))
           /\ \A k \in 1..(done - 1) : pr.calls[k] < pr.calls[k + 1]
           /\ pr.cb => pr.reads[Len(pr.reads)] > 0
           /\ pr.pos = Len(pr.src) => pr.uploaded = Len(pr.src)

\* A reader with a hasher read its two bytes in two reads, met the end of
\* its source, and called the observer with 1 and then 2.
C34_Witness ==
    /\ Len(readers) = 1
    /\ readers[1].hasher
    /\ readers[1].reads = <<1, 1, 0>>
    /\ readers[1].calls = <<1, 2>>
    /\ readers[1].crc = crcUpdate(0, readers[1].src)
    /\ readers[1].crc # 0

\* A reader without a hasher read its bytes and left the CRC at zero.
C34_WitnessNoHasher ==
    /\ Len(readers) = 1
    /\ ~readers[1].hasher
    /\ readers[1].reads = <<2, 0>>
    /\ readers[1].calls = <<2>>
    /\ readers[1].crc = 0

\* The record of file i has a worker that was started and has not ended.
WorkerRunning(i) == wstate[i] \in {"launched", "putting"}

\* What the orchestrator may rely on in a state: the record its loop is
\* about to read has had no worker yet, and past the wait no worker runs.
OrchestratorAlone ==
    /\ (pc \in {"loop", "acquire"} /\ fi <= nFiles) => wstate[fi] = "idle"
    /\ pc \in {"stat", "create", "init"} =>
          \A i \in 1..nFiles : wstate[i] = "idle"
    /\ pc \in {"confirm", "ready"} => \A i \in 1..nFiles : ~WorkerRunning(i)
    /\ toConfirm # <<>> => \A i \in 1..nFiles : ~WorkerRunning(i)

\* C35: in a batch run each per-file record is written by at most one
\* transfer worker, its own, and the orchestrator reads or writes a
\* record's negotiation outcome, error and checksum only while no worker
\* owning that record is running: before that worker is launched, or after
\* all workers have drained.
C35_RecordOwnedByOneWorker ==
    [][/\ OrchestratorAlone
       /\ OrchestratorAlone'
       /\ \A i \in 1..nFiles :
             /\ (wstate'[i] = "launched" /\ wstate[i] # "launched") =>
                   wstate[i] = "idle"
             /\ files'[i] # files[i] =>
                   \/ /\ WorkerRunning(i)
                      /\ wstate'[i] = "done"
                      /\ \A j \in 1..nFiles : j # i => wstate'[j] = wstate[j]
                   \/ /\ pc = "init"
                      /\ \A j \in 1..nFiles : wstate[j] = "idle"
       /\ (pc = "wait" /\ pc' # "wait") =>
             \A i \in 1..nFiles : ~WorkerRunning(i)]_vars

\* The worker of file 1 has written its record and ended while the worker
\* of file 2 runs and the loop has moved on to a third record.
C35_Witness ==
    /\ nFiles >= 3
    /\ pc \in {"loop", "acquire"}
    /\ fi = 3
    /\ WorkerRunning(2)
    /\ wstate[1] = "done"
    /\ files[1].crc32
    /\ files[2].uploadErr = "nil"
    /\ ~files[2].crc32

\* The run followed has returned.
RunReturned ==
    \/ upc = "multipart" /\ mpc = "done"
    \/ upc = "batch" /\ pc = "done"
    \/ upc = "retry" /\ rpc = "done"

\* The launching loop stands at the admission gate.
AtGate == mpc = "acquire" \/ pc = "acquire"

\* No goroutine holds a slot of the gate.
NoSlotHeld == InFlightParts = {} /\ InFlightFiles = {}

\* C36: with every remote call and every PUT returning and a fair
\* scheduler, every run of uploadMultipart, of uploadFilesBatch and of
\* uploadWithRetry returns in the end and stays returned, so the launching
\* loop does not stay at the admission gate for ever and the wait for the
\* workers completes; every slot taken is given back (in the end none is
\* held, and a goroutine that ended never holds one again); with or
\* without cancellation and failures.
C36_RunsReturn ==
    /\ <>[](RunReturned /\ NoSlotHeld /\ ~AtGate)
    /\ [][/\ \A i \in 1..nFiles :
               wstate[i] = "done" => wstate'[i] = "done"
          /\ \A q \in 1..totalParts :
               pstate[q] \in {"ok", "failed"} => pstate'[q] = pstate[q]]_vars

\* A batch returned after its loop had to wait at the gate: more files
\* were launched than the gate admits at once.
C36_Witness ==
    /\ upc = "batch"
    /\ pc = "done"
    /\ Cardinality({i \in 1..nFiles : wstate[i] = "done"}) > concurrentFiles
    /\ uploadedCount > 0

\* A multipart run returned after cancellation, all its parts ended.
C36_WitnessCancelled ==
    /\ upc = "multipart"
    /\ mpc = "done"
    /\ cancelled
    /\ totalParts >= 2
    /\ \A q \in 1..totalParts : pstate[q] \in {"ok", "failed"}

\* The completeMultipart call of this run was made and succeeded: the run
\* went on to the CRC re-read, and returned from it.
CompleteSucceeded ==
    /\ completeCalled
    /\ \/ mpc = "crc"
       \/ mpc \in {"defer", "done"} /\ mpResult.kind \in {"ok", "crcfail"}

\* C37: no abort call is issued for a multipart session whose
\* completeMultipart call has already succeeded, whenever the cancellation
\* fires (after the finalize call and during the CRC re-read included).
C37_NoAbortAfterComplete == CompleteSucceeded => ~abortCalled

\* Number of files sent to confirm-batch, over all the pages sent.
SentToConfirm == Len(Flatten(confirmReqs))

\* C38: in a batch run that is not cancelled (and returned its collection
\* result), the number of files sent to confirm-batch over all pages equals
\* the count of files reported as uploaded, which equals the number of
\* files minus the reported failure count.
C38_SentEqualsUploaded ==
    (pc = "done" /\ ~cancelled /\ result = "collection") =>
        /\ SentToConfirm = uploadedCount
        /\ uploadedCount = nFiles - errorCount

\* C39: in a batch run that is not cancelled, once the transfer phase has
\* drained every file has been counted exactly once, as uploaded or as
\* failed: uploaded count + failure count = number of input files, under
\* every interleaving of the workers.
C39_EveryFileCountedOnce ==
    (TransferDrained /\ ~cancelled) =>
        /\ uploadedCount + errorCount = nFiles
        /\ uploadedCount = Cardinality(putOK)
        /\ errorCount = Cardinality({i \in 1..nFiles : i \notin putOK})

\* A drained, uncancelled run with files counted on each of the three
\* paths: one skipped by the loop, one failed in its worker, one uploaded.
C39_Witness ==
    /\ TransferDrained
    /\ ~cancelled
    /\ nFiles >= 3
    /\ \E i \in 1..nFiles : wstate[i] = "idle" /\ ~Launchable(files[i])
    /\ \E i \in 1..nFiles : files[i].uploadErr = "xfer"
    /\ uploadedCount > 0
    /\ uploadedCount + errorCount = nFiles

\* Negotiation is over and gave every file an error.
AllFailedNegotiation ==
    /\ NegotiationDone
    /\ \A i \in 1..nFiles : plan[i] = "error"

\* C40: in a batch run where every file fails negotiation, with no failed
\* call and no cancellation, no PUT is issued and no confirm-batch call is
\* made; markCollectionReady is still called, the run returns the
\* collection result, and the reported failure count is the number of
\* input files.
C40_AllFilesFailNegotiation ==
    (AllFailedNegotiation /\ failedCall = "none" /\ ~cancelled) =>
        /\ \A i \in 1..nFiles : wstate[i] = "idle"
        /\ putOK = {}
        /\ uploadedCount = 0
        /\ CallCount("confirmBatch") = 0
        /\ confirmReqs = <<>>
        /\ pc = "done" =>
              /\ readyCalled
              /\ CallCount("markCollectionReady") = 1
              /\ result = "collection"
              /\ errorCount = nFiles

\* A returned run of several files (more than one init-batch page), all
\* of them refused by negotiation.
C40_Witness ==
    /\ AllFailedNegotiation
    /\ failedCall = "none"
    /\ ~cancelled
    /\ pc = "done"
    /\ nFiles > batchSize
    /\ result = "collection"
    /\ errorCount = nFiles
====
